---- MODULE Spec2Model ----
(***************************************************************************)
(* Model of the encircuit crate: the circuit builder (circuit/builder.rs), *)
(* the immutable Circuit with its analyses (circuit/circuit.rs) and the    *)
(* evaluation engine (circuit/encrypted.rs).                               *)
(*                                                                         *)
(* NodeIds and gate positions are 0-based as in the Rust code; TLA+        *)
(* sequences are 1-based, so the gate at position i is gates[i + 1].       *)
(***************************************************************************)
EXTENDS Integers, Sequences, FiniteSets, TLC

\* Bound on the number of gates added over all builders together.
MaxGates == 3

\* Two CircuitBuilder instances live in the program; a NodeId is a plain
\* usize, so an id handed out by one builder can be passed to the other.
Builders == {"main", "other"}

\* Builder Main is the one whose circuit is finished, analysed, encrypted and
\* evaluated; the other builder only hands out NodeIds of its own, which the
\* program may pass to Main.
Main == "main"
Other == "other"

VARIABLES
    gates,      \* CircuitBuilder.gates, per builder: Vec<Gate>
    node_map,   \* CircuitBuilder.node_map, per builder: set of <<NodeId, index>>
    next_id,    \* CircuitBuilder.next_id, per builder
    live,       \* the builder has not been consumed by finish(self)
    circuit,    \* the Circuit returned by finish, or NoCircuit
    returned,   \* history: the NodeIds add_gate returned, in call order
    calls,      \* history: the gate-adding methods called on each builder, in call order
    ownOnly,    \* history: every NodeId passed to the builder was its own
    result,     \* what the last call returned, when it was an analysis of a Circuit
    feature_parallel, \* the crate is built with the "parallel" feature
    enc,        \* the encrypt_inputs call: its argument, locals and return value
    encLog,     \* history: the plaintexts handed to the backend's encrypt in that call
    ec,         \* the EncryptedCircuit the call returned, or NoEC
    ev,         \* the evaluation call on ec: its locals and return value
    saved,      \* history: the outcome of an earlier call, kept for comparison
    ev2,        \* a second evaluation call on ec, made while or after ev runs
    backend_fail, \* the encrypt calls the backend answers with Err, in this behaviour
    tw          \* the try_evaluate_with_timeout call: caller, channel and worker

builderVars == <<gates, node_map, next_id, live, circuit, returned, calls, ownOnly>>
encVars == <<feature_parallel, enc, encLog, ec, ev>>
auxVars == <<saved, tw, ev2, backend_fail>>
vars == <<builderVars, result, encVars, auxVars>>

-----------------------------------------------------------------------------
(* Gate (builder.rs:16-29).  A uniform record; unused fields are 0/FALSE.   *)

GInput == [kind |-> "Input", value |-> FALSE, left |-> 0, right |-> 0]
GConstant(v) == [kind |-> "Constant", value |-> v, left |-> 0, right |-> 0]
GAnd(l, r) == [kind |-> "And", value |-> FALSE, left |-> l, right |-> r]
GOr(l, r) == [kind |-> "Or", value |-> FALSE, left |-> l, right |-> r]
GXor(l, r) == [kind |-> "Xor", value |-> FALSE, left |-> l, right |-> r]
\* Not(input): the single operand is kept in `left`.
GNot(x) == [kind |-> "Not", value |-> FALSE, left |-> x, right |-> 0]

BinaryKinds == {"And", "Or", "Xor"}
IsBinary(g) == g.kind \in BinaryKinds
IsLeaf(g) == g.kind \in {"Input", "Constant"}

\* The gate at 0-based position i.
GateAt(gs, i) == gs[i + 1]

NoCircuit == [present |-> FALSE, gates |-> <<>>, output |-> 0]
\* Circuit::new (circuit.rs:29-31)
CircuitNew(gs, out) == [present |-> TRUE, gates |-> gs, output |-> out]

NoResult == [op |-> "none", on |-> ""]

-----------------------------------------------------------------------------
(* CircuitBuilder (builder.rs:42-121)                                       *)

\* The NodeId handles the program holds: every id some builder returned.
\* A handle is <<owner, id>>; the code sees only the id.
Handles == {h \in Builders \X (0..(MaxGates - 1)) : h[2] < Len(returned[h[1]])}

TotalGates == Len(gates[Main]) + Len(gates[Other])

\* add_gate with the gate put at the front of the vector instead of pushed.
AddGateFront(b, gate) ==
    /\ live[b]
    /\ TotalGates < MaxGates
    /\ gates' = [gates EXCEPT ![b] = <<gate>> \o @]
    /\ next_id' = [next_id EXCEPT ![b] = @ + 1]
    /\ node_map' = [node_map EXCEPT ![b] = @ \cup {<<next_id[b], Len(gates[b])>>}]
    /\ returned' = [returned EXCEPT ![b] = Append(@, next_id[b])]

\* add_gate that hands out the vector length after the push as the id.
AddGateIdAfter(b, gate) ==
    /\ live[b]
    /\ TotalGates < MaxGates
    /\ gates' = [gates EXCEPT ![b] = Append(@, gate)]
    /\ next_id' = [next_id EXCEPT ![b] = @ + 1]
    /\ node_map' = [node_map EXCEPT ![b] = @ \cup {<<next_id[b], Len(gates[b])>>}]
    /\ returned' = [returned EXCEPT ![b] = Append(@, Len(gates[b]) + 1)]

\* add_gate (builder.rs:98-107): node_id = next_id; next_id += 1;
\* gate_index = gates.len(); gates.push(gate); node_map.insert; return node_id.
AddGate(b, gate) ==
    /\ live[b]
    /\ TotalGates < MaxGates
    /\ gates' = [gates EXCEPT ![b] = Append(@, gate)]
    /\ next_id' = [next_id EXCEPT ![b] = @ + 1]
    /\ node_map' = [node_map EXCEPT ![b] = @ \cup {<<next_id[b], Len(gates[b])>>}]
    /\ returned' = [returned EXCEPT ![b] = Append(@, next_id[b])]

\* input (builder.rs:51-53)
BInput(b) ==
    /\ AddGate(b, GInput)
    /\ calls' = [calls EXCEPT ![b] = Append(@, "input")]
    /\ result' = NoResult
    /\ UNCHANGED <<live, circuit, ownOnly>>
    /\ UNCHANGED <<encVars, auxVars>>

\* constant (builder.rs:58-60)
BConstant(b, v) ==
    /\ AddGate(b, GConstant(v))
    /\ calls' = [calls EXCEPT ![b] = Append(@, "constant")]
    /\ result' = NoResult
    /\ UNCHANGED <<live, circuit, ownOnly>>
    /\ UNCHANGED <<encVars, auxVars>>

\* and (builder.rs:65-67); l and r are handles, only their ids are stored.
BAnd(b, l, r) ==
    /\ AddGate(b, GAnd(l[2], r[2]))
    /\ calls' = [calls EXCEPT ![b] = Append(@, "and")]
    /\ ownOnly' = [ownOnly EXCEPT ![b] = @ /\ l[1] = b /\ r[1] = b]
    /\ result' = NoResult
    /\ UNCHANGED <<live, circuit>>
    /\ UNCHANGED <<encVars, auxVars>>

\* or (builder.rs:72-74)
BOr(b, l, r) ==
    /\ AddGate(b, GOr(l[2], r[2]))
    /\ calls' = [calls EXCEPT ![b] = Append(@, "or")]
    /\ ownOnly' = [ownOnly EXCEPT ![b] = @ /\ l[1] = b /\ r[1] = b]
    /\ result' = NoResult
    /\ UNCHANGED <<live, circuit>>
    /\ UNCHANGED <<encVars, auxVars>>

\* xor (builder.rs:79-81)
BXor(b, l, r) ==
    /\ AddGate(b, GXor(l[2], r[2]))
    /\ calls' = [calls EXCEPT ![b] = Append(@, "xor")]
    /\ ownOnly' = [ownOnly EXCEPT ![b] = @ /\ l[1] = b /\ r[1] = b]
    /\ result' = NoResult
    /\ UNCHANGED <<live, circuit>>
    /\ UNCHANGED <<encVars, auxVars>>

\* not (builder.rs:86-88)
BNot(b, x) ==
    /\ AddGate(b, GNot(x[2]))
    /\ calls' = [calls EXCEPT ![b] = Append(@, "not")]
    /\ ownOnly' = [ownOnly EXCEPT ![b] = @ /\ x[1] = b]
    /\ result' = NoResult
    /\ UNCHANGED <<live, circuit>>
    /\ UNCHANGED <<encVars, auxVars>>

\* finish (builder.rs:93-95): consumes the builder, Circuit::new(gates, output).
Finish(b, out) ==
    /\ live[b]
    /\ live' = [live EXCEPT ![b] = FALSE]
    /\ circuit' = [circuit EXCEPT ![b] = CircuitNew(gates[b], out[2])]
    /\ ownOnly' = [ownOnly EXCEPT ![b] = @ /\ out[1] = b]
    /\ result' = NoResult
    /\ UNCHANGED <<gates, node_map, next_id, returned, calls>>
    /\ UNCHANGED <<encVars, auxVars>>

\* CircuitBuilder::gate_count (builder.rs:118-120)
BuilderGateCount(b) == Len(gates[b])

\* input_count counting the gates that refer to no other gate.
BuilderInputCountLeaves(b) ==
    Cardinality({i \in 1..Len(gates[b]) : IsLeaf(gates[b][i])})

\* CircuitBuilder::input_count (builder.rs:110-115)
BuilderInputCount(b) ==
    Cardinality({i \in 1..Len(gates[b]) : gates[b][i].kind = "Input"})

\* A call of gate_count(&self) on a builder not yet consumed by finish.
DoBuilderGateCount(b) ==
    /\ live[b]
    /\ result' = [op |-> "builder.gate_count", on |-> b, val |-> BuilderGateCount(b)]
    /\ UNCHANGED <<builderVars, encVars, auxVars>>

\* A call of input_count(&self) on a builder not yet consumed by finish.
DoBuilderInputCount(b) ==
    /\ live[b]
    /\ result' = [op |-> "builder.input_count", on |-> b, val |-> BuilderInputCount(b)]
    /\ UNCHANGED <<builderVars, encVars, auxVars>>

-----------------------------------------------------------------------------
(* Circuit analyses (circuit.rs:118-305).  An index past the end of a Vec   *)
(* or slice panics in Rust; the operators below return that outcome.        *)

\* Circuit::gate_count (circuit.rs:137-139)
GateCount(c) == Len(c.gates)

\* Circuit::count_inputs / input_count (circuit.rs:119-124, 142-144)
CountInputs(c) ==
    Cardinality({i \in 1..Len(c.gates) : c.gates[i].kind = "Input"})

RECURSIVE CountKind(_, _, _)
\* One arm of the match in Circuit::stats: the gates of kind k among the
\* first n gates, counted one gate at a time.
CountKind(gs, n, k) ==
    IF n = 0 THEN 0
    ELSE CountKind(gs, n - 1, k) + (IF gs[n].kind = k THEN 1 ELSE 0)

\* stats with the Constant arm of the match counting nothing.
StatsNoConstants(c) ==
    [inputs |-> CountKind(c.gates, Len(c.gates), "Input"),
     constants |-> 0,
     and_gates |-> CountKind(c.gates, Len(c.gates), "And"),
     or_gates |-> CountKind(c.gates, Len(c.gates), "Or"),
     xor_gates |-> CountKind(c.gates, Len(c.gates), "Xor"),
     not_gates |-> CountKind(c.gates, Len(c.gates), "Not"),
     total_gates |-> Len(c.gates)]

\* Circuit::stats (circuit.rs:147-163)
Stats(c) ==
    [inputs |-> CountKind(c.gates, Len(c.gates), "Input"),
     constants |-> CountKind(c.gates, Len(c.gates), "Constant"),
     and_gates |-> CountKind(c.gates, Len(c.gates), "And"),
     or_gates |-> CountKind(c.gates, Len(c.gates), "Or"),
     xor_gates |-> CountKind(c.gates, Len(c.gates), "Xor"),
     not_gates |-> CountKind(c.gates, Len(c.gates), "Not"),
     total_gates |-> Len(c.gates)]

\* The DFS state of has_cycles: the two marking vectors and the verdict of
\* the call that just returned ("true", "false", or "panic").
DfsStart(gs) ==
    [visited |-> [i \in 1..Len(gs) |-> FALSE],
     rec_stack |-> [i \in 1..Len(gs) |-> FALSE],
     r |-> "false"]

RECURSIVE HasCyclesUtilNoPop(_, _, _)
\* has_cycles_util that never clears rec_stack[node] on the way back.
HasCyclesUtilNoPop(gs, node, st) ==
    IF node >= Len(gs) THEN [st EXCEPT !.r = "panic"]
    ELSE IF st.rec_stack[node + 1] THEN [st EXCEPT !.r = "true"]
    ELSE IF st.visited[node + 1] THEN [st EXCEPT !.r = "false"]
    ELSE
      LET s1 == [st EXCEPT !.visited[node + 1] = TRUE,
                           !.rec_stack[node + 1] = TRUE]
          g == GateAt(gs, node)
      IN  IF IsBinary(g) THEN
            LET a == HasCyclesUtilNoPop(gs, g.left, s1) IN
            IF a.r # "false" THEN a
            ELSE HasCyclesUtilNoPop(gs, g.right, a)
          ELSE IF g.kind = "Not" THEN HasCyclesUtilNoPop(gs, g.left, s1)
          ELSE [s1 EXCEPT !.r = "false"]

RECURSIVE HasCyclesUtilLeftOnly(_, _, _)
\* has_cycles_util following only the left operand of a two-operand gate.
HasCyclesUtilLeftOnly(gs, node, st) ==
    IF node >= Len(gs) THEN [st EXCEPT !.r = "panic"]
    ELSE IF st.rec_stack[node + 1] THEN [st EXCEPT !.r = "true"]
    ELSE IF st.visited[node + 1] THEN [st EXCEPT !.r = "false"]
    ELSE
      LET s1 == [st EXCEPT !.visited[node + 1] = TRUE,
                           !.rec_stack[node + 1] = TRUE]
          g == GateAt(gs, node)
      IN  IF ~IsLeaf(g) THEN
            LET a == HasCyclesUtilLeftOnly(gs, g.left, s1) IN
            IF a.r # "false" THEN a
            ELSE [a EXCEPT !.rec_stack[node + 1] = FALSE]
          ELSE [s1 EXCEPT !.rec_stack[node + 1] = FALSE, !.r = "false"]

RECURSIVE HasCyclesUtil(_, _, _)
\* has_cycles_util (circuit.rs:223-256)
HasCyclesUtil(gs, node, st) ==
    IF node >= Len(gs) THEN [st EXCEPT !.r = "panic"]        \* rec_stack[node]
    ELSE IF st.rec_stack[node + 1] THEN [st EXCEPT !.r = "true"]
    ELSE IF st.visited[node + 1] THEN [st EXCEPT !.r = "false"]
    ELSE
      LET s1 == [st EXCEPT !.visited[node + 1] = TRUE,
                           !.rec_stack[node + 1] = TRUE]
          g == GateAt(gs, node)
      IN  IF IsBinary(g) THEN
            LET a == HasCyclesUtil(gs, g.left, s1) IN
            IF a.r # "false" THEN a
            ELSE LET b == HasCyclesUtil(gs, g.right, a) IN
                 IF b.r # "false" THEN b
                 ELSE [b EXCEPT !.rec_stack[node + 1] = FALSE]
          ELSE IF g.kind = "Not" THEN
            LET a == HasCyclesUtil(gs, g.left, s1) IN
            IF a.r # "false" THEN a
            ELSE [a EXCEPT !.rec_stack[node + 1] = FALSE]
          ELSE [s1 EXCEPT !.rec_stack[node + 1] = FALSE, !.r = "false"]

\* Circuit::has_cycles (circuit.rs:214-220): "true", "false" or "panic".
HasCycles(c) == HasCyclesUtil(c.gates, c.output, DfsStart(c.gates)).r

VOk == [tag |-> "Ok", gate |-> 0, ref |-> 0]
VPanic == [tag |-> "Panic", gate |-> 0, ref |-> 0]
VCycle == [tag |-> "CycleDetected", gate |-> 0, ref |-> 0]
VForward(i, j) == [tag |-> "ForwardReference", gate |-> i, ref |-> j]
VOutput(o) == [tag |-> "InvalidOutputIndex", gate |-> 0, ref |-> o]

RECURSIVE RefCheckRightFirst(_, _)
\* The reference loop testing the right operand of a gate before the left.
RefCheckRightFirst(gs, i) ==
    IF i >= Len(gs) THEN VOk
    ELSE LET g == GateAt(gs, i) IN
         IF IsBinary(g) /\ g.right >= i THEN VForward(i, g.right)
         ELSE IF IsBinary(g) /\ g.left >= i THEN VForward(i, g.left)
         ELSE IF g.kind = "Not" /\ g.left >= i THEN VForward(i, g.left)
         ELSE RefCheckRightFirst(gs, i + 1)

RECURSIVE RefCheckSelfAllowed(_, _)
\* The reference loop comparing with > where the code compares with >=.
RefCheckSelfAllowed(gs, i) ==
    IF i >= Len(gs) THEN VOk
    ELSE LET g == GateAt(gs, i) IN
         IF IsBinary(g) /\ g.left > i THEN VForward(i, g.left)
         ELSE IF IsBinary(g) /\ g.right > i THEN VForward(i, g.right)
         ELSE IF g.kind = "Not" /\ g.left > i THEN VForward(i, g.left)
         ELSE RefCheckSelfAllowed(gs, i + 1)

RECURSIVE RefCheck(_, _)
\* The reference loop of validate (circuit.rs:182-201), from gate i on:
\* the first violation in gate order, left operand before right, or VOk.
RefCheck(gs, i) ==
    IF i >= Len(gs) THEN VOk
    ELSE LET g == GateAt(gs, i) IN
         IF IsBinary(g) /\ g.left >= i THEN VForward(i, g.left)
         ELSE IF IsBinary(g) /\ g.right >= i THEN VForward(i, g.right)
         ELSE IF g.kind = "Not" /\ g.left >= i THEN VForward(i, g.left)
         ELSE RefCheck(gs, i + 1)

\* Circuit::validate (circuit.rs:175-209)
Validate(c) ==
    LET hc == HasCycles(c) IN
    IF hc = "panic" THEN VPanic
    ELSE IF hc = "true" THEN VCycle
    ELSE LET rc == RefCheck(c.gates, 0) IN
         IF rc # VOk THEN rc
         ELSE IF c.output >= Len(c.gates) THEN VOutput(c.output)
         ELSE VOk

\* std::cmp::max (circuit.rs:272)
Max2(a, b) == IF a >= b THEN a ELSE b

DPanic == [panic |-> TRUE, val |-> 0]
DOk(v) == [panic |-> FALSE, val |-> v]

RECURSIVE DepthLoopMin(_, _, _)
\* The depth loop taking the smaller operand depth for a two-operand gate.
DepthLoopMin(gs, i, depths) ==
    IF i >= Len(gs) THEN [panic |-> FALSE, depths |-> depths]
    ELSE LET g == GateAt(gs, i) IN
         IF IsLeaf(g) THEN
           DepthLoopMin(gs, i + 1, [depths EXCEPT ![i + 1] = 0])
         ELSE IF g.kind = "Not" THEN
           IF g.left >= Len(gs) THEN [panic |-> TRUE, depths |-> depths]
           ELSE DepthLoopMin(gs, i + 1,
                             [depths EXCEPT ![i + 1] = depths[g.left + 1] + 1])
         ELSE
           IF g.left >= Len(gs) \/ g.right >= Len(gs)
           THEN [panic |-> TRUE, depths |-> depths]
           ELSE DepthLoopMin(gs, i + 1,
                  [depths EXCEPT ![i + 1] =
                      (IF depths[g.left + 1] <= depths[g.right + 1]
                       THEN depths[g.left + 1] ELSE depths[g.right + 1]) + 1])

RECURSIVE DepthLoop(_, _, _)
\* The loop of Circuit::depth (circuit.rs:267-275) from gate i on; depths is
\* the vector so far.  Reading depths[k] with k >= len panics.
DepthLoop(gs, i, depths) ==
    IF i >= Len(gs) THEN [panic |-> FALSE, depths |-> depths]
    ELSE LET g == GateAt(gs, i) IN
         IF IsLeaf(g) THEN
           DepthLoop(gs, i + 1, [depths EXCEPT ![i + 1] = 0])
         ELSE IF g.kind = "Not" THEN
           IF g.left >= Len(gs) THEN [panic |-> TRUE, depths |-> depths]
           ELSE DepthLoop(gs, i + 1,
                          [depths EXCEPT ![i + 1] = depths[g.left + 1] + 1])
         ELSE
           IF g.left >= Len(gs) \/ g.right >= Len(gs)
           THEN [panic |-> TRUE, depths |-> depths]
           ELSE DepthLoop(gs, i + 1,
                  [depths EXCEPT ![i + 1] =
                      Max2(depths[g.left + 1], depths[g.right + 1]) + 1])

\* Circuit::depth (circuit.rs:263-278)
Depth(c) ==
    LET d == DepthLoop(c.gates, 0, [i \in 1..Len(c.gates) |-> 0]) IN
    IF d.panic THEN DPanic
    ELSE IF c.output >= Len(c.gates) THEN DPanic
    ELSE DOk(d.depths[c.output + 1])

\* The analysis calls, made on the Circuit a finished builder produced.
DoValidate(b) ==
    /\ circuit[b].present
    /\ result' = [op |-> "validate", on |-> b, val |-> Validate(circuit[b])]
    /\ UNCHANGED <<builderVars, encVars, auxVars>>

DoHasCycles(b) ==
    /\ circuit[b].present
    /\ result' = [op |-> "has_cycles", on |-> b, val |-> HasCycles(circuit[b])]
    /\ UNCHANGED <<builderVars, encVars, auxVars>>

DoDepth(b) ==
    /\ circuit[b].present
    /\ result' = [op |-> "depth", on |-> b, val |-> Depth(circuit[b])]
    /\ UNCHANGED <<builderVars, encVars, auxVars>>

DoStats(b) ==
    /\ circuit[b].present
    /\ result' = [op |-> "stats", on |-> b, val |-> Stats(circuit[b])]
    /\ UNCHANGED <<builderVars, encVars, auxVars>>

\* AND_OR_XOR_TIME_MS and NOT_TIME_MS (circuit.rs:296-297), in microseconds
\* so that the estimate is an integer.
AND_OR_XOR_TIME_US == 100
NOT_TIME_US == 50

\* estimate_evaluation_time charging a NOT gate like a two-operand gate.
EstimateEvaluationTimeNotAsGate(stats, depth) ==
    LET sequential_time == depth * AND_OR_XOR_TIME_US
        total_gate_time ==
            (stats.and_gates + stats.or_gates + stats.xor_gates) * AND_OR_XOR_TIME_US
            + stats.not_gates * AND_OR_XOR_TIME_US
    IN  Max2(sequential_time, total_gate_time)

\* estimate_evaluation_time (circuit.rs:294-305), in microseconds.
EstimateEvaluationTime(stats, depth) ==
    LET sequential_time == depth * AND_OR_XOR_TIME_US
        total_gate_time ==
            (stats.and_gates + stats.or_gates + stats.xor_gates) * AND_OR_XOR_TIME_US
            + stats.not_gates * NOT_TIME_US
    IN  Max2(sequential_time, total_gate_time)

\* CircuitComplexity (circuit.rs:328-338); panic is the outcome of a call
\* that did not return one.
CircuitComplexity(total, depth, boolean, time) ==
    [panic |-> FALSE, total_gates |-> total, depth |-> depth,
     boolean_gates |-> boolean, estimated_evaluation_time_us |-> time]

CCPanic ==
    [panic |-> TRUE, total_gates |-> 0, depth |-> 0,
     boolean_gates |-> 0, estimated_evaluation_time_us |-> 0]

\* Circuit::complexity_estimate (circuit.rs:283-291): stats(), then depth()
\* for the depth field and again for the estimate.
ComplexityEstimate(c) ==
    LET stats == Stats(c)
        d == Depth(c)
    IN  IF d.panic THEN CCPanic
        ELSE CircuitComplexity(
                 stats.total_gates,
                 d.val,
                 stats.and_gates + stats.or_gates + stats.xor_gates + stats.not_gates,
                 EstimateEvaluationTime(stats, d.val))

\* complexity_rating with the upper end of every range excluded.
ComplexityRatingExclusive(cx) ==
    IF cx.total_gates < 10 THEN "Trivial"
    ELSE IF cx.total_gates < 100 THEN "Simple"
    ELSE IF cx.total_gates < 1000 THEN "Moderate"
    ELSE IF cx.total_gates < 10000 THEN "Complex"
    ELSE "Very Complex"

\* CircuitComplexity::complexity_rating (circuit.rs:349-357): the match on
\* total_gates, arms tried in order; total_gates is a usize, so 0 is its
\* least value.
ComplexityRating(cx) ==
    IF cx.total_gates >= 0 /\ cx.total_gates <= 10 THEN "Trivial"
    ELSE IF cx.total_gates >= 11 /\ cx.total_gates <= 100 THEN "Simple"
    ELSE IF cx.total_gates >= 101 /\ cx.total_gates <= 1000 THEN "Moderate"
    ELSE IF cx.total_gates >= 1001 /\ cx.total_gates <= 10000 THEN "Complex"
    ELSE "Very Complex"

DoComplexityEstimate(b) ==
    /\ circuit[b].present
    /\ result' = [op |-> "complexity_estimate", on |-> b,
                  val |-> ComplexityEstimate(circuit[b])]
    /\ UNCHANGED <<builderVars, encVars, auxVars>>

\* complexity_rating() called on the CircuitComplexity the program holds.
DoComplexityRating ==
    /\ result.op = "CircuitComplexity"
    /\ result' = [op |-> "complexity_rating", on |-> result.on, of |-> result.val,
                  val |-> ComplexityRating(result.val)]
    /\ UNCHANGED <<builderVars, encVars, auxVars>>

-----------------------------------------------------------------------------
(* The FHE backend (spec section 6): encrypt, decrypt and the four gate     *)
(* primitives.  A ciphertext carries the bit it encrypts and the number of  *)
(* the encrypt call that made it (0 for the result of a gate primitive);    *)
(* the core never looks inside one.                                         *)

\* Option::None for a ciphertext slot.
NoCt == [bit |-> FALSE, nonce |-> -1]

BackendEncrypt(b, n) == [bit |-> b, nonce |-> n]
BackendDecrypt(ct) == ct.bit
BackendAnd(a, b) == [bit |-> a.bit /\ b.bit, nonce |-> 0]
BackendOr(a, b) == [bit |-> a.bit \/ b.bit, nonce |-> 0]
BackendXor(a, b) == [bit |-> a.bit # b.bit, nonce |-> 0]
BackendNot(a) == [bit |-> ~a.bit, nonce |-> 0]

-----------------------------------------------------------------------------
(* Circuit::encrypt_inputs (circuit.rs:43-116)                              *)

\* Bound on the length of the plaintext slice passed to encrypt_inputs.
MaxInputs == 2

BoolSeqs(n) == UNION {[1..k -> BOOLEAN] : k \in 0..n}

\* What encrypt_inputs returns.  An error of the backend's encrypt names the
\* plaintext whose encryption failed: input number index, or a constant.
RetNone == [tag |-> "none", expected |-> 0, actual |-> 0, item |-> "", index |-> 0]
RetOk == [tag |-> "Ok", expected |-> 0, actual |-> 0, item |-> "", index |-> 0]
RetMismatch(e, a) ==
    [tag |-> "InputCountMismatch", expected |-> e, actual |-> a, item |-> "", index |-> 0]
RetEncryptErr(item, i) ==
    [tag |-> "EncryptError", expected |-> 0, actual |-> 0, item |-> item, index |-> i]

\* The backend rejects no encrypt call.
NoFail == [inputs |-> {}, false |-> FALSE, true |-> FALSE]

\* The Err(e) an element's closure returned on the parallel path, kept in
\* the element's slot until the collect.
ErrSlot(i) == [bit |-> FALSE, nonce |-> (0 - 1) - i]
IsErrSlot(ct) == ct.nonce < (0 - 1)

EncIdle == [pc |-> "idle", inputs |-> <<>>, encrypted_inputs |-> <<>>,
            slots |-> <<>>, ret |-> RetNone]

NoEC == [present |-> FALSE, circuit |-> NoCircuit, encrypted_inputs |-> <<>>,
         encrypted_false |-> NoCt, encrypted_true |-> NoCt]

\* EncryptedCircuit::new (encrypted.rs:37-44)
EncryptedCircuitNew(c, cts, f, t) ==
    [present |-> TRUE, circuit |-> c, encrypted_inputs |-> cts,
     encrypted_false |-> f, encrypted_true |-> t]

\* The count check with > in place of !=.
CountMismatchGt(c, ins) == Len(ins) > CountInputs(c)

\* The count check also rejecting an empty slice.
CountMismatchOrEmpty(c, ins) == Len(ins) # CountInputs(c) \/ Len(ins) = 0

\* The count check of encrypt_inputs (circuit.rs:48-49)
CountMismatch(c, ins) == Len(ins) # CountInputs(c)

\* Collecting the parallel results in the order the workers finished.
ParCollectByCompletion(slots) ==
    [j \in 1..Len(slots) |->
        CHOOSE ct \in {slots[i] : i \in 1..Len(slots)} : ct.nonce = j]

\* Collecting the parallel results last element first.
ParCollectReversed(slots) ==
    [j \in 1..Len(slots) |-> slots[Len(slots) + 1 - j]]

\* par_iter().map(..).collect() (circuit.rs:98-104): an indexed collect, the
\* result of element i lands at position i.
ParCollect(slots) == slots

EvNone == [tag |-> "none", out |-> <<>>, msg |-> ""]

\* No earlier call is being compared.
NoSaved == [call |-> "none"]
\* backend_calls is history: the homomorphic gate operations the call has
\* made, each with the index of the gate it was made for.
EvIdle == [pc |-> "idle", entry |-> "", gate_index |-> 0, gate_results |-> <<>>,
           input_index |-> 0, backend_calls |-> <<>>, ret |-> EvNone]

\* The locals of encrypt_inputs after the count check (circuit.rs:48-64):
\* returned with the mismatch error, or on the path the build selects.
EncStart(c, ins, par) ==
    IF CountMismatch(c, ins)
    THEN [EncIdle EXCEPT !.pc = "done", !.inputs = ins,
                         !.ret = RetMismatch(CountInputs(c), Len(ins))]
    ELSE [EncIdle EXCEPT !.pc = IF par THEN "par" ELSE "seq",
                         !.inputs = ins,
                         !.slots = [i \in 1..Len(ins) |-> NoCt]]

\* encrypt_inputs up to the choice of path (circuit.rs:43-65): the count
\* check, then the parallel or the sequential path as the crate was built.
\* A behaviour follows one call: the call reads only the immutable Circuit
\* and its arguments, so a second call would start from this same state.
EncryptInputs(ins) ==
    /\ circuit[Main].present
    /\ enc.pc = "idle"
    /\ encLog' = <<>>
    /\ ec' = NoEC
    /\ ev' = EvIdle
    /\ enc' = EncStart(circuit[Main], ins, feature_parallel)
    /\ UNCHANGED <<auxVars, builderVars, result, feature_parallel>>

\* The same encrypt_inputs call (same circuit, same slice) made again on the
\* crate built the other way round with respect to the "parallel" feature
\* (circuit.rs:57-64); the outcome of the first call is kept in saved.
EncryptInputsOnOtherPath ==
    /\ enc.pc = "done"
    /\ saved = NoSaved
    /\ saved' = [call |-> "encrypt_inputs", parallel |-> feature_parallel,
                  ret |-> enc.ret, present |-> ec.present,
                  encrypted_inputs |-> ec.encrypted_inputs]
    /\ feature_parallel' = ~feature_parallel
    /\ encLog' = <<>>
    /\ ec' = NoEC
    /\ ev' = EvIdle
    /\ enc' = EncStart(circuit[Main], enc.inputs, ~feature_parallel)
    /\ UNCHANGED <<builderVars, result, tw, ev2, backend_fail>>

\* One turn of the loop of encrypt_inputs_sequential (circuit.rs:76-80); the
\* ? returns the error of a failed encrypt at once.
SeqEncrypt ==
    /\ enc.pc = "seq"
    /\ Len(enc.encrypted_inputs) < Len(enc.inputs)
    /\ LET i == Len(enc.encrypted_inputs) + 1
           ct == BackendEncrypt(enc.inputs[i], Len(encLog) + 1)
       IN  /\ enc' = IF i \in backend_fail.inputs
                     THEN [enc EXCEPT !.pc = "done", !.ret = RetEncryptErr("input", i)]
                     ELSE [enc EXCEPT !.encrypted_inputs = Append(@, ct)]
           /\ encLog' = Append(encLog, enc.inputs[i])
    /\ UNCHANGED <<auxVars, builderVars, result, feature_parallel, ec, ev>>

\* The end of encrypt_inputs_sequential (circuit.rs:82-86): both constants
\* are encrypted and the EncryptedCircuit is made.
SeqFinish ==
    /\ enc.pc = "seq"
    /\ Len(enc.encrypted_inputs) = Len(enc.inputs)
    /\ LET f == BackendEncrypt(FALSE, Len(encLog) + 1)
           t == BackendEncrypt(TRUE, Len(encLog) + 2)
       IN  IF backend_fail.false
           THEN /\ enc' = [enc EXCEPT !.pc = "done", !.ret = RetEncryptErr("false", 0)]
                /\ encLog' = Append(encLog, FALSE)
                /\ ec' = ec
           ELSE IF backend_fail.true
           THEN /\ enc' = [enc EXCEPT !.pc = "done", !.ret = RetEncryptErr("true", 0)]
                /\ encLog' = encLog \o <<FALSE, TRUE>>
                /\ ec' = ec
           ELSE /\ ec' = EncryptedCircuitNew(circuit[Main], enc.encrypted_inputs, f, t)
                /\ encLog' = encLog \o <<FALSE, TRUE>>
                /\ enc' = [enc EXCEPT !.pc = "done", !.ret = RetOk]
    /\ UNCHANGED <<auxVars, builderVars, result, feature_parallel, ev>>

\* One worker's closure in encrypt_inputs_parallel (circuit.rs:100-103):
\* element i is encrypted, in whatever order the pool schedules it.
ParEncrypt(i) ==
    /\ enc.pc = "par"
    /\ i \in 1..Len(enc.inputs)
    /\ enc.slots[i] = NoCt
    /\ enc' = [enc EXCEPT !.slots[i] =
                  IF i \in backend_fail.inputs THEN ErrSlot(i)
                  ELSE BackendEncrypt(enc.inputs[i], Len(encLog) + 1)]
    /\ encLog' = Append(encLog, enc.inputs[i])
    /\ UNCHANGED <<auxVars, builderVars, result, feature_parallel, ec, ev>>

\* The end of encrypt_inputs_parallel (circuit.rs:104-115).  The collect
\* into Result<Vec<_>> ends once every element has run or, as soon as some
\* closure has returned Err, without running the rest; it is then Err with
\* one of the errors met, whichever the pool recorded.  Both constants are
\* encrypted next, each with ?, and only then encrypted_inputs? is looked at
\* (circuit.rs:107-112).
ParFinish ==
    /\ enc.pc = "par"
    /\ LET ran == {i \in 1..Len(enc.inputs) : enc.slots[i] # NoCt}
           errs == {i \in ran : IsErrSlot(enc.slots[i])}
       IN  /\ ran = 1..Len(enc.inputs) \/ errs # {}
           /\ IF backend_fail.false
              THEN /\ enc' = [enc EXCEPT !.pc = "done", !.ret = RetEncryptErr("false", 0)]
                   /\ encLog' = Append(encLog, FALSE)
                   /\ ec' = ec
              ELSE IF backend_fail.true
              THEN /\ enc' = [enc EXCEPT !.pc = "done", !.ret = RetEncryptErr("true", 0)]
                   /\ encLog' = encLog \o <<FALSE, TRUE>>
                   /\ ec' = ec
              ELSE IF errs # {}
              THEN /\ \E i \in errs :
                        enc' = [enc EXCEPT !.pc = "done", !.ret = RetEncryptErr("input", i)]
                   /\ encLog' = encLog \o <<FALSE, TRUE>>
                   /\ ec' = ec
              ELSE LET cts == ParCollect(enc.slots)
                       f == BackendEncrypt(FALSE, Len(encLog) + 1)
                       t == BackendEncrypt(TRUE, Len(encLog) + 2)
                   IN  /\ ec' = EncryptedCircuitNew(circuit[Main], cts, f, t)
                       /\ enc' = [enc EXCEPT !.pc = "done", !.ret = RetOk,
                                             !.encrypted_inputs = cts]
                       /\ encLog' = encLog \o <<FALSE, TRUE>>
    /\ UNCHANGED <<auxVars, builderVars, result, feature_parallel, ev>>

-----------------------------------------------------------------------------
(* EncryptedCircuit evaluation (encrypted.rs:52-205)                        *)

\* homomorphic_and / or / xor / not (encrypted.rs:184-205)
HomomorphicAnd(l, r) == BackendAnd(l, r)
HomomorphicOr(l, r) == BackendOr(l, r)
HomomorphicXor(l, r) == BackendXor(l, r)
HomomorphicNot(x) == BackendNot(x)

\* The outcome of one arm of the match: call names the homomorphic_*
\* method the arm called, "" for none.
GOk(ct) == [tag |-> "Ok", ct |-> ct, msg |-> "", call |-> ""]
GOp(call, ct) == [tag |-> "Ok", ct |-> ct, msg |-> "", call |-> call]
GErr(m) == [tag |-> "Err", ct |-> NoCt, msg |-> m, call |-> ""]
GPanic == [tag |-> "Panic", ct |-> NoCt, msg |-> "index out of bounds", call |-> ""]

\* The Input arm always handing out the first bound ciphertext.
EvalInputFirst(e, input_index) ==
    IF Len(e.encrypted_inputs) = 0 THEN GPanic
    ELSE GOk(e.encrypted_inputs[1])

\* The Gate::Input arm (encrypted.rs:119-124); the cursor is advanced by
\* the loop turn that takes this arm.
EvalInput(e, input_index) ==
    IF input_index >= Len(e.encrypted_inputs) THEN GPanic
    ELSE GOk(e.encrypted_inputs[input_index + 1])

\* The Constant arm with the two pre-encrypted constants exchanged.
EvalConstantSwapped(e, v) ==
    IF v THEN e.encrypted_false ELSE e.encrypted_true

\* The Gate::Constant arm (encrypted.rs:125-132)
EvalConstant(e, v) ==
    IF v THEN e.encrypted_true ELSE e.encrypted_false

\* The match on one gate in evaluate_with_tfhe_key (encrypted.rs:118-170),
\* with the results table and the input cursor as they stand.
EvalGate(e, g, gate_results, input_index) ==
    LET n == Len(gate_results) IN
    IF g.kind = "Input" THEN EvalInput(e, input_index)
    ELSE IF g.kind = "Constant" THEN GOk(EvalConstant(e, g.value))
    ELSE IF g.kind = "Not" THEN
        IF g.left >= n THEN GPanic
        ELSE IF gate_results[g.left + 1] = NoCt THEN GErr("Input gate not yet computed")
        ELSE GOp("not", HomomorphicNot(gate_results[g.left + 1]))
    ELSE
        IF g.left >= n THEN GPanic
        ELSE IF gate_results[g.left + 1] = NoCt
             THEN GErr("Left input gate not yet computed")
        ELSE IF g.right >= n THEN GPanic
        ELSE IF gate_results[g.right + 1] = NoCt
             THEN GErr("Right input gate not yet computed")
        ELSE LET l == gate_results[g.left + 1]
                 r == gate_results[g.right + 1]
             IN  CASE g.kind = "And" -> GOp("and", HomomorphicAnd(l, r))
                   [] g.kind = "Or" -> GOp("or", HomomorphicOr(l, r))
                   [] g.kind = "Xor" -> GOp("xor", HomomorphicXor(l, r))

\* evaluate with the error of evaluate_with_tfhe_key turned into an empty
\* success instead of a panic.
EntryRetSwallow(entry, tag, out, msg) ==
    IF tag = "Err" /\ entry = "evaluate"
    THEN [tag |-> "Ok", out |-> <<>>, msg |-> ""]
    ELSE [tag |-> tag, out |-> out, msg |-> msg]

\* What the entry point hands its caller for an outcome of
\* evaluate_with_tfhe_key: evaluate (encrypted.rs:52-55) unwraps with expect,
\* so an Err becomes a panic; try_evaluate (encrypted.rs:68-74) returns it.
EntryRet(entry, tag, out, msg) ==
    IF tag = "Err" /\ entry = "evaluate"
    THEN [tag |-> "Panic", out |-> <<>>, msg |-> "Evaluation failed"]
    ELSE [tag |-> tag, out |-> out, msg |-> msg]

\* An evaluation whose input cursor is not a local of the call: it goes on
\* from where the cursor of the call in ev stands.
EvStartSharedCursor(e, entry) ==
    [pc |-> "loop", entry |-> entry, gate_index |-> 0,
     gate_results |-> [i \in 1..Len(e.circuit.gates) |-> NoCt],
     input_index |-> ev.input_index, backend_calls |-> <<>>, ret |-> EvNone]

\* The locals of evaluate_with_tfhe_key before its loop (encrypted.rs:113-114).
EvStart(e, entry) ==
    [pc |-> "loop", entry |-> entry, gate_index |-> 0,
     gate_results |-> [i \in 1..Len(e.circuit.gates) |-> NoCt],
     input_index |-> 0, backend_calls |-> <<>>, ret |-> EvNone]

\* evaluate / try_evaluate up to the loop (encrypted.rs:52-55, 68-74,
\* 113-114): tfhe_key() always succeeds (keys.rs:264-266).
Evaluate(entry) ==
    /\ ec.present
    /\ ev.pc \in {"idle", "done"}
    /\ ev' = EvStart(ec, entry)
    /\ UNCHANGED <<auxVars, builderVars, result, feature_parallel, enc, encLog, ec>>

\* After one entry point has returned, the other one is called on the same
\* EncryptedCircuit and server key; the first outcome is kept in saved.
EvaluateOtherEntry ==
    /\ ev.pc = "done"
    /\ saved = NoSaved
    /\ saved' = [call |-> "evaluate", entry |-> ev.entry, ret |-> ev.ret]
    /\ ev' = EvStart(ec, IF ev.entry = "evaluate" THEN "try_evaluate" ELSE "evaluate")
    /\ UNCHANGED <<builderVars, result, feature_parallel, enc, encLog, ec, tw, ev2, backend_fail>>

\* A loop turn that stores its result at the mirrored position of the table.
EvalTurnStoreMirrored(e, v) ==
    LET g == GateAt(e.circuit.gates, v.gate_index)
        o == EvalGate(e, g, v.gate_results, v.input_index)
    IN  IF o.tag = "Ok"
        THEN [v EXCEPT !.gate_results[Len(v.gate_results) - v.gate_index] = o.ct,
                       !.gate_index = @ + 1,
                       !.input_index = IF g.kind = "Input" THEN @ + 1 ELSE @,
                       !.backend_calls = IF o.call = "" THEN @
                                         ELSE Append(@, [op |-> o.call, gate |-> v.gate_index])]
        ELSE [v EXCEPT !.pc = "done", !.ret = EntryRet(v.entry, o.tag, <<>>, o.msg)]

\* A loop turn that computes only the gate the output designates and stores
\* the false constant for any other operation gate.
EvalTurnOutputOnly(e, v) ==
    LET g == GateAt(e.circuit.gates, v.gate_index)
        o == IF IsLeaf(g) \/ v.gate_index = e.circuit.output
             THEN EvalGate(e, g, v.gate_results, v.input_index)
             ELSE GOk(e.encrypted_false)
    IN  IF o.tag = "Ok"
        THEN [v EXCEPT !.gate_results[v.gate_index + 1] = o.ct,
                       !.gate_index = @ + 1,
                       !.input_index = IF g.kind = "Input" THEN @ + 1 ELSE @,
                       !.backend_calls = IF o.call = "" THEN @
                                         ELSE Append(@, [op |-> o.call, gate |-> v.gate_index])]
        ELSE [v EXCEPT !.pc = "done", !.ret = EntryRet(v.entry, o.tag, <<>>, o.msg)]

\* One turn of the loop on the locals v of a call (encrypted.rs:117-173):
\* the arm of the gate at gate_index, then the store at gate_index
\* (encrypted.rs:172); an Err or a panic ends the call.
EvalTurn(e, v) ==
    LET g == GateAt(e.circuit.gates, v.gate_index)
        o == EvalGate(e, g, v.gate_results, v.input_index)
    IN  IF o.tag = "Ok"
        THEN [v EXCEPT !.gate_results[v.gate_index + 1] = o.ct,
                       !.gate_index = @ + 1,
                       !.input_index = IF g.kind = "Input" THEN @ + 1 ELSE @,
                       !.backend_calls = IF o.call = "" THEN @
                                         ELSE Append(@, [op |-> o.call, gate |-> v.gate_index])]
        ELSE [v EXCEPT !.pc = "done", !.ret = EntryRet(v.entry, o.tag, <<>>, o.msg)]

\* The call in ev takes one turn of the loop (encrypted.rs:117-173).
EvalStep ==
    /\ ev.pc = "loop"
    /\ ev.gate_index < Len(ec.circuit.gates)
    /\ ev' = EvalTurn(ec, ev)
    /\ UNCHANGED <<auxVars, builderVars, result, feature_parallel, enc, encLog, ec>>

\* The end of the evaluation returning the entry of the last gate.
EvalFinishLast ==
    /\ ev.pc = "loop"
    /\ ev.gate_index = Len(ec.circuit.gates)
    /\ LET o == Len(ec.circuit.gates) - 1 IN
       ev' = [ev EXCEPT !.pc = "done", !.ret =
                IF ec.circuit.output >= Len(ev.gate_results)
                THEN EntryRet(ev.entry, "Panic", <<>>, "index out of bounds")
                ELSE IF ev.gate_results[o + 1] = NoCt
                THEN EntryRet(ev.entry, "Err", <<>>, "Output gate not computed")
                ELSE EntryRet(ev.entry, "Ok", <<ev.gate_results[o + 1]>>, "")]
    /\ UNCHANGED <<auxVars, builderVars, result, feature_parallel, enc, encLog, ec>>

\* After the loop (encrypted.rs:175-180): the table entry at the output.
EvalReturn(e, v) ==
    LET o == e.circuit.output IN
    [v EXCEPT !.pc = "done", !.ret =
        IF o >= Len(v.gate_results)
        THEN EntryRet(v.entry, "Panic", <<>>, "index out of bounds")
        ELSE IF v.gate_results[o + 1] = NoCt
        THEN EntryRet(v.entry, "Err", <<>>, "Output gate not computed")
        ELSE EntryRet(v.entry, "Ok", <<v.gate_results[o + 1]>>, "")]

\* The call in ev leaves the loop and returns (encrypted.rs:175-180).
EvalFinish ==
    /\ ev.pc = "loop"
    /\ ev.gate_index = Len(ec.circuit.gates)
    /\ ev' = EvalReturn(ec, ev)
    /\ UNCHANGED <<auxVars, builderVars, result, feature_parallel, enc, encLog, ec>>

\* A second call of evaluate or try_evaluate on the same EncryptedCircuit
\* (&self, encrypted.rs:52, 68), made once the call in ev has started: while
\* it runs, from another thread, or after it has returned.
EvaluateSecond(entry) ==
    /\ ec.present
    /\ ev.pc # "idle"
    /\ ev2.pc = "idle"
    /\ ev2' = EvStart(ec, entry)
    /\ UNCHANGED <<builderVars, result, encVars, saved, tw, backend_fail>>

\* The second call takes one turn of the loop (encrypted.rs:117-173).
EvalStepSecond ==
    /\ ev2.pc = "loop"
    /\ ev2.gate_index < Len(ec.circuit.gates)
    /\ ev2' = EvalTurn(ec, ev2)
    /\ UNCHANGED <<builderVars, result, encVars, saved, tw, backend_fail>>

\* The second call leaves the loop and returns (encrypted.rs:175-180).
EvalFinishSecond ==
    /\ ev2.pc = "loop"
    /\ ev2.gate_index = Len(ec.circuit.gates)
    /\ ev2' = EvalReturn(ec, ev2)
    /\ UNCHANGED <<builderVars, result, encVars, saved, tw, backend_fail>>

-----------------------------------------------------------------------------
(* The circuit! macro (encircuit_macros/src/lib.rs).  An expression is a    *)
(* tuple: <<"path", p>> an identifier (p = 0 is a name that is no           *)
(* parameter), <<"lit", v>> a boolean literal, <<"not", e>>, <<"paren", e>>,*)
(* and <<op, l, r>> for op in and/or/xor, or "add" for an operator the macro *)
(* does not support.  Parameters are named 1..n; variable __var_k is k.     *)

BinOps == {"and", "or", "xor", "add"}

\* The builder method with | lowered to and.
MethodOfOrAsAnd(op) ==
    CASE op = "and" -> "and"
      [] op = "or" -> "and"
      [] op = "xor" -> "xor"
      [] OTHER -> "unsupported"

\* The match on the operator in build_expr (lib.rs:143-153)
MethodOf(op) ==
    CASE op = "and" -> "and"
      [] op = "or" -> "or"
      [] op = "xor" -> "xor"
      [] OTHER -> "unsupported"

\* One generated statement: let __var_<var> = __builder.<method>(..).
Stmt(var, method, a, b, value) ==
    [var |-> var, method |-> method, a |-> a, b |-> b, value |-> value]

\* CircuitBuilder::new of the macro crate (lib.rs:95-100); err and var carry
\* the Result<Ident> of the last build_expr call.
MacroBuilderNew == [statements |-> <<>>, next_var_id |-> 0, err |-> FALSE, var |-> 0]

\* add_input (lib.rs:110-117)
AddInput(cb) ==
    [cb EXCEPT !.statements = Append(@, Stmt(cb.next_var_id, "input", 0, 0, FALSE)),
               !.next_var_id = @ + 1,
               !.var = cb.next_var_id]

RECURSIVE BuildExpr(_, _, _)
\* build_expr (lib.rs:120-208)
BuildExpr(expr, cb, input_map) ==
    CASE expr[1] = "path" ->
           IF expr[2] \in DOMAIN input_map
           THEN [cb EXCEPT !.var = input_map[expr[2]]]
           ELSE [cb EXCEPT !.err = TRUE]
      [] expr[1] \in BinOps ->
           LET l == BuildExpr(expr[2], cb, input_map) IN
           IF l.err THEN l
           ELSE LET r == BuildExpr(expr[3], l, input_map) IN
                IF r.err THEN r
                ELSE IF MethodOf(expr[1]) = "unsupported" THEN [r EXCEPT !.err = TRUE]
                ELSE [r EXCEPT
                        !.statements = Append(@, Stmt(r.next_var_id, MethodOf(expr[1]),
                                                      l.var, r.var, FALSE)),
                        !.next_var_id = @ + 1,
                        !.var = r.next_var_id]
      [] expr[1] = "not" ->
           LET x == BuildExpr(expr[2], cb, input_map) IN
           IF x.err THEN x
           ELSE [x EXCEPT
                   !.statements = Append(@, Stmt(x.next_var_id, "not", x.var, 0, FALSE)),
                   !.next_var_id = @ + 1,
                   !.var = x.next_var_id]
      [] expr[1] = "paren" -> BuildExpr(expr[2], cb, input_map)
      [] expr[1] = "lit" ->
           [cb EXCEPT
              !.statements = Append(@, Stmt(cb.next_var_id, "constant", 0, 0, expr[2])),
              !.next_var_id = @ + 1,
              !.var = cb.next_var_id]

RECURSIVE AddInputs(_, _)
\* The loop over closure.inputs (lib.rs:282-285), parameters 1..n.
AddInputs(n, cb) == IF n = 0 THEN cb ELSE AddInput(AddInputs(n - 1, cb))

\* generate_circuit_code (lib.rs:277-292): the inputs in parameter order,
\* parameter i mapped to the variable of its input statement, then the body.
GenerateCircuitCode(n, body) ==
    LET cb == AddInputs(n, MacroBuilderNew)
        input_map == [i \in 1..n |-> i - 1]
    IN  BuildExpr(body, cb, input_map)

\* The gate a generated statement adds, with the NodeIds bound to its
\* argument variables (builder.rs:51-88).
StmtGate(st, env) ==
    CASE st.method = "input" -> GInput
      [] st.method = "constant" -> GConstant(st.value)
      [] st.method = "and" -> GAnd(env[st.a + 1], env[st.b + 1])
      [] st.method = "or" -> GOr(env[st.a + 1], env[st.b + 1])
      [] st.method = "xor" -> GXor(env[st.a + 1], env[st.b + 1])
      [] st.method = "not" -> GNot(env[st.a + 1])

RECURSIVE RunStatements(_, _, _)
\* The generated block run on a fresh builder (lib.rs:214-220), statements k
\* onwards: each statement pushes one gate and binds its variable to the
\* NodeId add_gate returns, the length of the vector before the push.
RunStatements(stmts, k, st) ==
    IF k > Len(stmts) THEN st
    ELSE RunStatements(stmts, k + 1,
             [gates |-> Append(st.gates, StmtGate(stmts[k], st.env)),
              env |-> Append(st.env, Len(st.gates))])

\* circuit! { |p1, .., pn| body } on a fresh builder: the expansion
\* (lib.rs:267-274), then the generated block up to __builder.finish.  A
\* rejected body is a compile error and nothing runs.  A behaviour follows
\* one invocation.
CircuitMacro(n, body) ==
    /\ live[Main]
    /\ gates[Main] = <<>>
    /\ result = NoResult
    /\ LET code == GenerateCircuitCode(n, body) IN
       IF code.err
       THEN /\ result' = [op |-> "circuit!", on |-> Main, ok |-> FALSE,
                          inputs |-> n, body |-> body]
            /\ UNCHANGED builderVars
       ELSE LET run == RunStatements(code.statements, 1, [gates |-> <<>>, env |-> <<>>])
                len == Len(run.gates)
            IN  /\ gates' = [gates EXCEPT ![Main] = run.gates]
                /\ next_id' = [next_id EXCEPT ![Main] = len]
                /\ node_map' = [node_map EXCEPT ![Main] = {<<i, i>> : i \in 0..(len - 1)}]
                /\ returned' = [returned EXCEPT ![Main] = run.env]
                /\ calls' = [calls EXCEPT ![Main] =
                                [k \in 1..len |-> code.statements[k].method]]
                /\ live' = [live EXCEPT ![Main] = FALSE]
                /\ circuit' = [circuit EXCEPT ![Main] =
                                  CircuitNew(run.gates, run.env[code.var + 1])]
                /\ result' = [op |-> "circuit!", on |-> Main, ok |-> TRUE,
                              inputs |-> n, body |-> body]
                /\ UNCHANGED ownOnly
    /\ UNCHANGED <<encVars, auxVars>>

-----------------------------------------------------------------------------
(* EncryptedCircuit::try_evaluate_with_timeout (encrypted.rs:88-109).  The  *)
(* caller creates a channel, spawns a worker that runs try_evaluate on a    *)
(* clone and sends the result, and blocks in recv_timeout.  The worker's    *)
(* evaluation is the call in ev.                                            *)

\* pc: where the caller is; chan: the messages in the channel; rx: the
\* receiver has not been dropped; worker: the state of the spawned thread;
\* ret: what the caller returned; cause: history, the arm of recv_timeout
\* that made the caller return.
TwIdle == [pc |-> "idle", chan |-> <<>>, rx |-> FALSE, worker |-> "none",
           ret |-> EvNone, cause |-> ""]

\* bail!("Circuit evaluation timed out after {}ms") (encrypted.rs:107)
TimeoutErr == [tag |-> "Err", out |-> <<>>, msg |-> "Circuit evaluation timed out"]

\* The call up to recv_timeout (encrypted.rs:94-105): channel, clones, spawn;
\* the worker enters try_evaluate.  Only the parallel build has this method.
TryEvaluateWithTimeout ==
    /\ feature_parallel
    /\ ec.present
    /\ tw.pc = "idle"
    /\ ev.pc = "idle"
    /\ tw' = [TwIdle EXCEPT !.pc = "waiting", !.rx = TRUE, !.worker = "running"]
    /\ ev' = EvStart(ec, "try_evaluate")
    /\ UNCHANGED <<builderVars, result, feature_parallel, enc, encLog, ec, saved, ev2, backend_fail>>

\* The worker's send with a late result stored into what the caller got.
WorkerSendOverwrites ==
    /\ tw.worker = "running"
    /\ ev.pc = "done"
    /\ ev.ret.tag # "Panic"
    /\ tw' = IF tw.rx
             THEN [tw EXCEPT !.chan = Append(@, ev.ret), !.worker = "sent"]
             ELSE [tw EXCEPT !.worker = "discarded", !.ret = ev.ret]
    /\ UNCHANGED <<builderVars, result, encVars, saved, ev2, backend_fail>>

\* let _ = tx.send(result) (encrypted.rs:101): the message is queued while
\* the receiver lives; once it is dropped send returns Err, which is ignored.
WorkerSend ==
    /\ tw.worker = "running"
    /\ ev.pc = "done"
    /\ ev.ret.tag # "Panic"
    /\ tw' = IF tw.rx
             THEN [tw EXCEPT !.chan = Append(@, ev.ret), !.worker = "sent"]
             ELSE [tw EXCEPT !.worker = "discarded"]
    /\ UNCHANGED <<builderVars, result, encVars, saved, ev2, backend_fail>>

\* try_evaluate panicked in the worker (encrypted.rs:100): the thread
\* unwinds and drops the sender without sending.
WorkerPanic ==
    /\ tw.worker = "running"
    /\ ev.pc = "done"
    /\ ev.ret.tag = "Panic"
    /\ tw' = [tw EXCEPT !.worker = "panicked"]
    /\ UNCHANGED <<builderVars, result, encVars, saved, ev2, backend_fail>>

\* recv_timeout returns Ok(result) (encrypted.rs:106); rx is dropped on return.
CallerRecv ==
    /\ tw.pc = "waiting"
    /\ tw.chan # <<>>
    /\ tw' = [tw EXCEPT !.pc = "returned", !.ret = Head(tw.chan), !.chan = <<>>,
                        !.rx = FALSE, !.cause = "result"]
    /\ UNCHANGED <<builderVars, result, encVars, saved, ev2, backend_fail>>

\* A recv_timeout that gives up at the deadline without looking into the
\* channel.
CallerTimeoutIgnoresMessage ==
    /\ tw.pc = "waiting"
    /\ tw.worker \in {"running", "sent"}
    /\ tw' = [tw EXCEPT !.pc = "returned", !.ret = TimeoutErr, !.rx = FALSE,
                        !.cause = "timeout"]
    /\ UNCHANGED <<builderVars, result, encVars, saved, ev2, backend_fail>>

\* recv_timeout returns Err(Timeout) (encrypted.rs:107): timeout_ms elapsed
\* with no message in the channel.
CallerTimeout ==
    /\ tw.pc = "waiting"
    /\ tw.chan = <<>>
    /\ tw.worker = "running"
    /\ tw' = [tw EXCEPT !.pc = "returned", !.ret = TimeoutErr, !.rx = FALSE,
                        !.cause = "timeout"]
    /\ UNCHANGED <<builderVars, result, encVars, saved, ev2, backend_fail>>

\* recv_timeout returns Err(Disconnected) (encrypted.rs:107, the same arm):
\* the sender is gone and the channel is empty.
CallerDisconnected ==
    /\ tw.pc = "waiting"
    /\ tw.chan = <<>>
    /\ tw.worker = "panicked"
    /\ tw' = [tw EXCEPT !.pc = "returned", !.ret = TimeoutErr, !.rx = FALSE,
                        !.cause = "disconnected"]
    /\ UNCHANGED <<builderVars, result, encVars, saved, ev2, backend_fail>>

-----------------------------------------------------------------------------
\* The program before any call: two fresh builders, nothing encrypted.
Fresh ==
    /\ gates = [b \in Builders |-> <<>>]
    /\ node_map = [b \in Builders |-> {}]
    /\ next_id = [b \in Builders |-> 0]
    /\ live = [b \in Builders |-> TRUE]
    /\ circuit = [b \in Builders |-> NoCircuit]
    /\ returned = [b \in Builders |-> <<>>]
    /\ calls = [b \in Builders |-> <<>>]
    /\ ownOnly = [b \in Builders |-> TRUE]
    /\ enc = EncIdle
    /\ encLog = <<>>
    /\ ec = NoEC
    /\ ev = EvIdle
    /\ saved = NoSaved
    /\ tw = TwIdle
    /\ ev2 = EvIdle

Init ==
    /\ Fresh
    /\ backend_fail = NoFail
    /\ result = NoResult
    /\ feature_parallel \in BOOLEAN

Next ==
    \/ \E b \in Builders : BInput(b)
    \/ \E v \in BOOLEAN : BConstant(Main, v)
    \/ \E l, r \in Handles : BAnd(Main, l, r)
    \/ \E l, r \in Handles : BOr(Main, l, r)
    \/ \E l, r \in Handles : BXor(Main, l, r)
    \/ \E x \in Handles : BNot(Main, x)
    \/ \E out \in Handles : Finish(Main, out)
    \/ DoValidate(Main)
    \/ DoHasCycles(Main)
    \/ DoDepth(Main)
    \/ DoStats(Main)
    \/ DoComplexityEstimate(Main)
    \/ \E b \in Builders : DoBuilderGateCount(b)
    \/ \E b \in Builders : DoBuilderInputCount(b)

Spec == Init /\ [][Next]_vars

\* The builder, then input encryption and evaluation of the finished circuit.
NextEnc ==
    \/ \E b \in Builders : BInput(b)
    \/ \E v \in BOOLEAN : BConstant(Main, v)
    \/ \E l, r \in Handles : BAnd(Main, l, r)
    \/ \E l, r \in Handles : BOr(Main, l, r)
    \/ \E l, r \in Handles : BXor(Main, l, r)
    \/ \E x \in Handles : BNot(Main, x)
    \/ \E out \in Handles : Finish(Main, out)
    \/ \E ins \in BoolSeqs(MaxInputs) : EncryptInputs(ins)
    \/ SeqEncrypt
    \/ SeqFinish
    \/ \E i \in 1..MaxInputs : ParEncrypt(i)
    \/ ParFinish
    \/ \E entry \in {"evaluate", "try_evaluate"} : Evaluate(entry)
    \/ EvalStep
    \/ EvalFinish

SpecEnc == Init /\ [][NextEnc]_vars

\* Bounds on the fields of the CircuitComplexity values the rating is applied to.
MaxRatingGates == 10002
MaxRatingDepth == 1

\* The program holds a CircuitComplexity (a public struct with public fields,
\* circuit.rs:328-338) and calls complexity_rating() on it.
InitRating ==
    /\ Fresh
    /\ backend_fail = NoFail
    /\ feature_parallel = FALSE
    /\ \E t \in 0..MaxRatingGates, d \in 0..MaxRatingDepth, bg \in BOOLEAN :
          result = [op |-> "CircuitComplexity", on |-> Main,
                    val |-> CircuitComplexity(t, d, IF bg /\ t > 0 THEN 1 ELSE 0,
                                              d * AND_OR_XOR_TIME_US)]

NextRating == DoComplexityRating

SpecRating == InitRating /\ [][NextRating]_vars

\* Bound on the number of gates of the circuits validate is applied to.
MaxAnyGates == 3

\* The gates validate and has_cycles tell apart: their matches have one arm
\* for And | Or | Xor, one for Not and one for Input | Constant
\* (circuit.rs:183-199, 236-250), so And and Input stand for their arms.
AnyGateSet(n) ==
    {GInput} \cup {GNot(x) : x \in 0..(n - 1)}
             \cup {GAnd(l, r) : l, r \in 0..(n - 1)}

\* Every circuit of n such gates with all indices in range.
AnyCircuits(n) ==
    {CircuitNew(gs, o) : gs \in [1..n -> AnyGateSet(n)], o \in 0..(n - 1)}

\* Main has been finished into one of these circuits, built with NodeIds
\* that builder Other handed out: Other holds MaxAnyGates inputs.
InitAny ==
    /\ \E n \in 1..MaxAnyGates : \E c \in AnyCircuits(n) :
          /\ gates = [b \in Builders |->
                         IF b = Main THEN c.gates ELSE [i \in 1..MaxAnyGates |-> GInput]]
          /\ circuit = [b \in Builders |-> IF b = Main THEN c ELSE NoCircuit]
    /\ node_map = [b \in Builders |-> {<<i, i>> : i \in 0..(Len(gates[b]) - 1)}]
    /\ next_id = [b \in Builders |-> Len(gates[b])]
    /\ live = [b \in Builders |-> b # Main]
    /\ returned = [b \in Builders |-> [i \in 1..Len(gates[b]) |-> i - 1]]
    /\ calls = [b \in Builders |->
                   [i \in 1..Len(gates[b]) |->
                       CASE gates[b][i].kind = "Input" -> "input"
                         [] gates[b][i].kind = "Not" -> "not"
                         [] OTHER -> "and"]]
    /\ ownOnly = [b \in Builders |-> b # Main]
    /\ result = NoResult
    /\ feature_parallel = FALSE
    /\ enc = EncIdle
    /\ encLog = <<>>
    /\ ec = NoEC
    /\ ev = EvIdle
    /\ saved = NoSaved
    /\ tw = TwIdle
    /\ ev2 = EvIdle
    /\ backend_fail = NoFail

NextAny ==
    \/ DoValidate(Main)
    \/ DoHasCycles(Main)

SpecAny == InitAny /\ [][NextAny]_vars

\* Bounds on the closures given to circuit!: parameters and expression nodes.
MaxParams == 2
MaxExprSize == 5

RECURSIVE ExprsOfSize(_, _)
\* The expressions of exactly k nodes over parameters 1..n.
ExprsOfSize(k, n) ==
    IF k = 1
    THEN {<<"path", p>> : p \in 0..n} \cup {<<"lit", v>> : v \in BOOLEAN}
    ELSE {<<op, e>> : op \in {"not", "paren"}, e \in ExprsOfSize(k - 1, n)}
         \cup UNION {{<<op, l, r>> : op \in BinOps,
                                    l \in ExprsOfSize(j, n),
                                    r \in ExprsOfSize(k - 1 - j, n)} :
                        j \in 1..(k - 2)}

Exprs(n) == UNION {ExprsOfSize(k, n) : k \in 1..MaxExprSize}

InitMacro ==
    /\ Fresh
    /\ backend_fail = NoFail
    /\ result = NoResult
    /\ feature_parallel = FALSE

NextMacro ==
    /\ result = NoResult
    /\ \E n \in 0..MaxParams : \E body \in Exprs(n) : CircuitMacro(n, body)

SpecMacro == InitMacro /\ [][NextMacro]_vars

\* One encrypt_inputs call on a circuit of Main, then the same call on the
\* other path.  encrypt_inputs reads only the gate kinds, so the circuits
\* Main builds from its own NodeIds cover its cases.
NextPaths ==
    \/ BInput(Main)
    \/ \E v \in BOOLEAN : BConstant(Main, v)
    \/ \E l, r \in Handles : BAnd(Main, l, r)
    \/ \E l, r \in Handles : BOr(Main, l, r)
    \/ \E l, r \in Handles : BXor(Main, l, r)
    \/ \E x \in Handles : BNot(Main, x)
    \/ \E out \in Handles : Finish(Main, out)
    \/ \E ins \in BoolSeqs(MaxInputs) : EncryptInputs(ins)
    \/ SeqEncrypt
    \/ SeqFinish
    \/ \E i \in 1..MaxInputs : ParEncrypt(i)
    \/ ParFinish
    \/ EncryptInputsOnOtherPath

SpecPaths == Init /\ [][NextPaths]_vars

\* The sequential build: evaluation does not depend on how the inputs were
\* encrypted.
InitSequential ==
    /\ Fresh
    /\ backend_fail = NoFail
    /\ result = NoResult
    /\ feature_parallel = FALSE

\* One entry point of evaluation, then the other on the same EncryptedCircuit.
NextEntries ==
    \/ \E b \in Builders : BInput(b)
    \/ \E v \in BOOLEAN : BConstant(Main, v)
    \/ \E l, r \in Handles : BAnd(Main, l, r)
    \/ \E l, r \in Handles : BOr(Main, l, r)
    \/ \E l, r \in Handles : BXor(Main, l, r)
    \/ \E x \in Handles : BNot(Main, x)
    \/ \E out \in Handles : Finish(Main, out)
    \/ \E ins \in BoolSeqs(MaxInputs) : EncryptInputs(ins)
    \/ SeqEncrypt
    \/ SeqFinish
    \/ \E entry \in {"evaluate", "try_evaluate"} : Evaluate(entry)
    \/ EvalStep
    \/ EvalFinish
    \/ EvaluateOtherEntry

SpecEntries == InitSequential /\ [][NextEntries]_vars

\* The parallel build, the only one with try_evaluate_with_timeout.  The
\* wrapper never looks at a gate, so And stands for the two-operand kinds in
\* the circuits it is run on.
InitParallel ==
    /\ Fresh
    /\ backend_fail = NoFail
    /\ result = NoResult
    /\ feature_parallel = TRUE

NextTimeout ==
    \/ \E b \in Builders : BInput(b)
    \/ \E v \in BOOLEAN : BConstant(Main, v)
    \/ \E l, r \in Handles : BAnd(Main, l, r)
    \/ \E x \in Handles : BNot(Main, x)
    \/ \E out \in Handles : Finish(Main, out)
    \/ \E ins \in BoolSeqs(MaxInputs) : EncryptInputs(ins)
    \/ \E i \in 1..MaxInputs : ParEncrypt(i)
    \/ ParFinish
    \/ TryEvaluateWithTimeout
    \/ EvalStep
    \/ EvalFinish
    \/ WorkerSend
    \/ WorkerPanic
    \/ CallerRecv
    \/ CallerTimeout
    \/ CallerDisconnected

SpecTimeout == InitParallel /\ [][NextTimeout]_vars

\* encrypt_inputs with a backend whose encrypt returns Err for some of the
\* plaintexts (ciphertext.rs:50): any set of input positions and either
\* constant.  The call does not look at the gates beyond counting the Input
\* gates, so the circuits are made of input() and constant() calls.
BackendFails ==
    [inputs : SUBSET (1..MaxInputs), false : BOOLEAN, true : BOOLEAN]

InitEncFail ==
    /\ Fresh
    /\ result = NoResult
    /\ feature_parallel \in BOOLEAN
    /\ backend_fail \in BackendFails

NextEncFail ==
    \/ BInput(Main)
    \/ \E v \in BOOLEAN : BConstant(Main, v)
    \/ \E out \in Handles : Finish(Main, out)
    \/ \E ins \in BoolSeqs(MaxInputs) : EncryptInputs(ins)
    \/ SeqEncrypt
    \/ SeqFinish
    \/ \E i \in 1..MaxInputs : ParEncrypt(i)
    \/ ParFinish

SpecEncFail == InitEncFail /\ [][NextEncFail]_vars

\* The sequential build: the builder, input encryption, and evaluation
\* through either entry point.
NextEval ==
    \/ \E b \in Builders : BInput(b)
    \/ \E v \in BOOLEAN : BConstant(Main, v)
    \/ \E l, r \in Handles : BAnd(Main, l, r)
    \/ \E l, r \in Handles : BOr(Main, l, r)
    \/ \E l, r \in Handles : BXor(Main, l, r)
    \/ \E x \in Handles : BNot(Main, x)
    \/ \E out \in Handles : Finish(Main, out)
    \/ \E ins \in BoolSeqs(MaxInputs) : EncryptInputs(ins)
    \/ SeqEncrypt
    \/ SeqFinish
    \/ \E entry \in {"evaluate", "try_evaluate"} : Evaluate(entry)
    \/ EvalStep
    \/ EvalFinish

SpecEval == InitSequential /\ [][NextEval]_vars

\* Two evaluation calls on one EncryptedCircuit, their loop turns
\* interleaved in every order.  The calls never look at which operation a
\* two-operand gate is when they share nothing, so And stands for the three.
NextRepeat ==
    \/ \E b \in Builders : BInput(b)
    \/ \E v \in BOOLEAN : BConstant(Main, v)
    \/ \E l, r \in Handles : BAnd(Main, l, r)
    \/ \E x \in Handles : BNot(Main, x)
    \/ \E out \in Handles : Finish(Main, out)
    \/ \E ins \in BoolSeqs(MaxInputs) : EncryptInputs(ins)
    \/ SeqEncrypt
    \/ SeqFinish
    \/ \E entry \in {"evaluate", "try_evaluate"} : ev.pc = "idle" /\ Evaluate(entry)
    \/ EvalStep
    \/ EvalFinish
    \/ \E entry \in {"evaluate", "try_evaluate"} : EvaluateSecond(entry)
    \/ EvalStepSecond
    \/ EvalFinishSecond

SpecRepeat == InitSequential /\ [][NextRepeat]_vars

\* The spawned worker is a thread of its own that the scheduler keeps
\* running, and a blocked recv_timeout returns once a message, the timeout or
\* the disconnection is there.
SpecTimeoutFair ==
    /\ SpecTimeout
    /\ WF_vars(EvalStep)
    /\ WF_vars(EvalFinish)
    /\ WF_vars(WorkerSend)
    /\ WF_vars(WorkerPanic)
    /\ WF_vars(CallerRecv \/ CallerTimeout \/ CallerDisconnected)

-----------------------------------------------------------------------------
(* Properties of the builder and of the analyses, checked under Spec.       *)

\* Every And/Or/Xor/Not gate at position i has all operand indices below i.
TopologicalOrder(gs) ==
    \A i \in 0..(Len(gs) - 1) :
        LET g == GateAt(gs, i) IN
        /\ (~IsLeaf(g)) => g.left < i
        /\ IsBinary(g) => g.right < i

\* The circuit of Main exists and every NodeId Main was given was its own.
BuilderProduced == circuit[Main].present /\ ownOnly[Main]

\* C1: in a circuit finished by a builder that was only ever given NodeIds
\* it returned itself, every non-leaf gate at position i has all its operand
\* indices strictly less than i.
C1_TopologicalOrder ==
    BuilderProduced => TopologicalOrder(circuit[Main].gates)

C1_Witness ==
    /\ BuilderProduced
    /\ Len(circuit[Main].gates) = 3
    /\ circuit[Main].gates[2].kind = "Not"
    /\ IsBinary(circuit[Main].gates[3])
    /\ circuit[Main].gates[3].left = 1
    /\ circuit[Main].gates[3].right = 0

RECURSIVE OperandPaths(_, _)
\* The operand paths from gate n down to a leaf, each a sequence of gate
\* positions.  Only used on circuits in topological order.
OperandPaths(gs, n) ==
    LET g == GateAt(gs, n) IN
    IF IsLeaf(g) THEN {<<n>>}
    ELSE IF g.kind = "Not" THEN {<<n>> \o p : p \in OperandPaths(gs, g.left)}
    ELSE {<<n>> \o p : p \in OperandPaths(gs, g.left) \cup OperandPaths(gs, g.right)}

\* The number of non-leaf gates on the longest operand path from n to a leaf.
LongestPath(gs, n) ==
    LET lens == {Len(p) - 1 : p \in OperandPaths(gs, n)} IN
    CHOOSE m \in lens : \A k \in lens : k <= m

\* C4: for a builder-produced circuit depth() is the number of non-leaf gates
\* on the longest operand path from the output gate to a leaf.
C4_DepthIsLongestPath ==
    (BuilderProduced /\ result.op = "depth") =>
        /\ ~result.val.panic
        /\ result.val.val = LongestPath(circuit[Main].gates, circuit[Main].output)

\* depth() has returned 1 for a circuit that also holds a deeper gate the
\* output does not depend on.
C4_Witness ==
    /\ BuilderProduced
    /\ result.op = "depth"
    /\ result.val = DOk(1)
    /\ circuit[Main].output = 1
    /\ Len(circuit[Main].gates) = 3
    /\ circuit[Main].gates[3].kind = "Not"
    /\ circuit[Main].gates[3].left = 1

\* C5: stats().total_gates equals gate_count() and the sum of the per-kind
\* counts, and stats().inputs equals input_count(), for every circuit.
C5_StatsTotals ==
    result.op = "stats" =>
        LET st == result.val
            c == circuit[result.on]
        IN  /\ st.total_gates = GateCount(c)
            /\ st.total_gates = st.inputs + st.constants + st.and_gates
                                + st.or_gates + st.xor_gates + st.not_gates
            /\ st.inputs = CountInputs(c)

C5_Witness ==
    /\ result.op = "stats"
    /\ result.val.inputs = 1
    /\ result.val.constants = 1
    /\ result.val.xor_gates = 1
    /\ result.val.total_gates = 3

\* C8: validate() returns an invalid-output-index error for every circuit
\* whose output index is not below the number of gates.
C8_InvalidOutputReported ==
    (result.op = "validate"
        /\ circuit[result.on].output >= Len(circuit[result.on].gates))
    => result.val.tag = "InvalidOutputIndex"

\* C9: no sequence of builder calls, NodeIds of another builder included,
\* yields a circuit with an operand index not below its gate's index or an
\* output index outside the gate sequence.
C9_BuilderCannotExpressForwardRef ==
    circuit[Main].present =>
        /\ TopologicalOrder(circuit[Main].gates)
        /\ circuit[Main].output < Len(circuit[Main].gates)

\* C10: the n-th gate-adding call on a builder returns NodeId n, the position
\* of the gate it appended, and next_id always equals the number of gates.
C10_NodeIdIsPosition ==
    \A b \in Builders :
        /\ next_id[b] = Len(gates[b])
        /\ Len(returned[b]) = Len(gates[b])
        /\ \A n \in 1..Len(returned[b]) : returned[b][n] = n - 1
        /\ node_map[b] = {<<i, i>> : i \in 0..(Len(gates[b]) - 1)}

C10_Witness ==
    /\ returned[Main] = <<0, 1, 2>>
    /\ gates[Main][1].kind = "Constant"
    /\ gates[Main][2].kind = "Input"
    /\ gates[Main][3].kind = "Or"

\* The number of gates of kind k in c, as a set cardinality.
KindCount(c, k) == Cardinality({i \in 1..Len(c.gates) : c.gates[i].kind = k})

\* C18: a complexity_estimate() that returns has total_gates = gate_count(),
\* depth = depth(), boolean_gates = and + or + xor + not = total_gates -
\* inputs - constants, and an estimated time, in integer microseconds, of
\* max(100 * depth, 100 * (and + or + xor) + 50 * not).
C18_ComplexityEstimateFields ==
    (result.op = "complexity_estimate" /\ ~result.val.panic) =>
        LET cx == result.val
            c == circuit[result.on]
            bin == KindCount(c, "And") + KindCount(c, "Or") + KindCount(c, "Xor")
            nots == KindCount(c, "Not")
            seqt == 100 * cx.depth
            tot == 100 * bin + 50 * nots
        IN  /\ cx.total_gates = GateCount(c)
            /\ Depth(c) = DOk(cx.depth)
            /\ cx.boolean_gates = bin + nots
            /\ cx.boolean_gates
                 = cx.total_gates - KindCount(c, "Input") - KindCount(c, "Constant")
            /\ cx.estimated_evaluation_time_us >= seqt
            /\ cx.estimated_evaluation_time_us >= tot
            /\ cx.estimated_evaluation_time_us \in {seqt, tot}

\* The estimate was made for two NOT gates on one input: depth 1, and the
\* gate time 2 x 50 us equals the depth time 100 us.
C18_Witness ==
    /\ result.op = "complexity_estimate"
    /\ ~result.val.panic
    /\ Len(circuit[Main].gates) = 3
    /\ circuit[Main].gates[2] = GNot(0)
    /\ circuit[Main].gates[3] = GNot(0)
    /\ result.val.depth = 1
    /\ result.val.boolean_gates = 2
    /\ result.val.estimated_evaluation_time_us = 100

\* The estimate was made for two AND gates side by side: the gate time
\* 200 us exceeds the depth time 100 us.
C18_WitnessGateTime ==
    /\ result.op = "complexity_estimate"
    /\ ~result.val.panic
    /\ KindCount(circuit[Main], "And") = 2
    /\ result.val.depth = 1
    /\ result.val.estimated_evaluation_time_us = 200

\* The number of input() calls among the gate-adding calls made on builder b.
InputCalls(b) == Cardinality({k \in 1..Len(calls[b]) : calls[b][k] = "input"})

\* The kind of gate each gate-adding method pushes.
KindOfCall(m) ==
    CASE m = "input" -> "Input"
      [] m = "constant" -> "Constant"
      [] m = "and" -> "And"
      [] m = "or" -> "Or"
      [] m = "xor" -> "Xor"
      [] m = "not" -> "Not"

\* C30: at every point of construction the builder's gate_count() is the
\* number of gate-adding calls made so far and its input_count() the number
\* of input() calls; a call of either changes nothing in the builder; every
\* gate-adding call raises gate_count() by exactly 1 and leaves the earlier
\* gates as they were; and after finish the Circuit reports the same
\* gate_count() and input_count(), with the gates in the order of the calls.
C30_CountsFollowCalls ==
    /\ [](\A b \in Builders :
            /\ BuilderGateCount(b) = Len(calls[b])
            /\ BuilderInputCount(b) = InputCalls(b)
            /\ circuit[b].present
               => /\ GateCount(circuit[b]) = Len(calls[b])
                  /\ CountInputs(circuit[b]) = InputCalls(b)
                  /\ \A k \in 1..Len(calls[b]) :
                        circuit[b].gates[k].kind = KindOfCall(calls[b][k]))
    /\ [](/\ result.op = "builder.gate_count" => result.val = Len(calls[result.on])
          /\ result.op = "builder.input_count" => result.val = InputCalls(result.on))
    /\ [][\A b \in Builders :
            /\ calls'[b] # calls[b]
               => /\ Len(calls'[b]) = Len(calls[b]) + 1
                  /\ BuilderGateCount(b)' = BuilderGateCount(b) + 1
                  /\ SubSeq(gates'[b], 1, Len(gates[b])) = gates[b]
            /\ calls'[b] = calls[b] => gates'[b] = gates[b]]_vars
    /\ [][result'.op \in {"builder.gate_count", "builder.input_count"}
            => UNCHANGED builderVars]_vars

\* input_count() was called on Main after input(), constant(), input():
\* three gate-adding calls, two of them input().
C30_Witness ==
    /\ result.op = "builder.input_count"
    /\ result.on = Main
    /\ calls[Main] = <<"input", "constant", "input">>
    /\ result.val = 2

\* Main was finished after input(), input(), and(): the Circuit holds the
\* three gates in call order.
C30_WitnessFinished ==
    /\ circuit[Main].present
    /\ calls[Main] = <<"input", "input", "and">>
    /\ circuit[Main].gates = <<GInput, GInput, GAnd(0, 1)>>

-----------------------------------------------------------------------------
(* Properties of input encryption and evaluation, checked under SpecEnc.    *)

\* The number of Input gates before position n: the rank of the Input gate
\* at n among the inputs.
InputRank(gs, n) == Cardinality({i \in 0..(n - 1) : GateAt(gs, i).kind = "Input"})

RECURSIVE PlainValue(_, _, _)
\* The Boolean value of gate n computed in plaintext: the k-th Input gate
\* takes ins[k], Constant(v) takes v.
PlainValue(gs, n, ins) ==
    LET g == GateAt(gs, n) IN
    CASE g.kind = "Input" -> ins[InputRank(gs, n) + 1]
      [] g.kind = "Constant" -> g.value
      [] g.kind = "Not" -> ~PlainValue(gs, g.left, ins)
      [] g.kind = "And" -> PlainValue(gs, g.left, ins) /\ PlainValue(gs, g.right, ins)
      [] g.kind = "Or" -> PlainValue(gs, g.left, ins) \/ PlainValue(gs, g.right, ins)
      [] g.kind = "Xor" -> PlainValue(gs, g.left, ins) # PlainValue(gs, g.right, ins)

\* C3: for a builder-produced circuit bound to a plaintext vector of the
\* right length, evaluation returns a single ciphertext that decrypts to the
\* plaintext value of the output gate.
C3_EvaluateMatchesPlaintext ==
    (BuilderProduced /\ ev.pc = "done") =>
        /\ ev.ret.tag = "Ok"
        /\ Len(ev.ret.out) = 1
        /\ BackendDecrypt(ev.ret.out[1])
             = PlainValue(circuit[Main].gates, circuit[Main].output, enc.inputs)

\* An evaluation has returned true for Xor(input, Constant(true)) bound to
\* the input false.
C3_Witness ==
    /\ BuilderProduced
    /\ ev.pc = "done"
    /\ ev.ret.tag = "Ok"
    /\ BackendDecrypt(ev.ret.out[1])
    /\ enc.inputs = <<FALSE>>
    /\ Len(circuit[Main].gates) = 3
    /\ circuit[Main].gates[1].kind = "Constant"
    /\ circuit[Main].gates[1].value
    /\ circuit[Main].gates[2].kind = "Input"
    /\ circuit[Main].gates[3] = GXor(1, 0)
    /\ circuit[Main].output = 2

\* C6: an encrypt_inputs call whose slice length differs from input_count()
\* returns the input-count-mismatch error, makes no encrypt call at all and
\* produces no EncryptedCircuit.
C6_MismatchEncryptsNothing ==
    (enc.pc # "idle" /\ Len(enc.inputs) # CountInputs(circuit[Main])) =>
        /\ enc.pc = "done"
        /\ enc.ret = RetMismatch(CountInputs(circuit[Main]), Len(enc.inputs))
        /\ encLog = <<>>
        /\ ~ec.present

\* The call was made with one plaintext too few.
C6_Witness ==
    /\ enc.pc = "done"
    /\ enc.ret.tag = "InputCountMismatch"
    /\ Len(enc.inputs) = 1
    /\ CountInputs(circuit[Main]) = 2

\* C7: an EncryptedCircuit returned by encrypt_inputs holds input_count()
\* ciphertexts and the i-th one is the ciphertext an encrypt call made from
\* inputs[i], on the sequential and on the parallel path.
C7_InputCiphertextsInOrder ==
    ec.present =>
        /\ enc.ret = RetOk
        /\ Len(ec.encrypted_inputs) = CountInputs(ec.circuit)
        /\ ec.circuit = circuit[Main]
        /\ \A i \in 1..Len(ec.encrypted_inputs) :
              LET ct == ec.encrypted_inputs[i] IN
              /\ ct.nonce \in 1..Len(encLog)
              /\ encLog[ct.nonce] = enc.inputs[i]
              /\ BackendDecrypt(ct) = enc.inputs[i]
        /\ \A i, j \in 1..Len(ec.encrypted_inputs) :
              i # j => ec.encrypted_inputs[i].nonce # ec.encrypted_inputs[j].nonce

\* The parallel path has returned after encrypting the second input first.
C7_Witness ==
    /\ ec.present
    /\ feature_parallel
    /\ enc.inputs = <<TRUE, FALSE>>
    /\ ec.encrypted_inputs[1].nonce = 2
    /\ ec.encrypted_inputs[2].nonce = 1

\* The sequential path has returned for two inputs of different value.
C7_WitnessSequential ==
    /\ ec.present
    /\ ~feature_parallel
    /\ enc.inputs = <<TRUE, FALSE>>

\* C12: a builder-produced circuit with no Input gate whose output gate is
\* Constant(v) is bound by encrypt_inputs with the empty slice, and its
\* evaluation returns one ciphertext that decrypts to v, for both values of v.
C12_ConstantOnlyCircuit ==
    (/\ BuilderProduced
     /\ CountInputs(circuit[Main]) = 0
     /\ GateAt(circuit[Main].gates, circuit[Main].output).kind = "Constant"
     /\ enc.pc # "idle"
     /\ enc.inputs = <<>>)
    => /\ enc.ret.tag # "InputCountMismatch"
       /\ enc.pc = "done" => (enc.ret = RetOk /\ ec.present)
       /\ ev.pc = "done" =>
            /\ ev.ret.tag = "Ok"
            /\ Len(ev.ret.out) = 1
            /\ BackendDecrypt(ev.ret.out[1])
                 = GateAt(circuit[Main].gates, circuit[Main].output).value

\* The circuit of the single gate Constant(true), bound to the empty slice,
\* has been evaluated.
C12_Witness ==
    /\ BuilderProduced
    /\ circuit[Main].gates = <<GConstant(TRUE)>>
    /\ circuit[Main].output = 0
    /\ enc.inputs = <<>>
    /\ ec.present
    /\ ev.pc = "done"
    /\ BackendDecrypt(ev.ret.out[1])

\* The same for the single gate Constant(false).
C12_WitnessFalse ==
    /\ BuilderProduced
    /\ circuit[Main].gates = <<GConstant(FALSE)>>
    /\ circuit[Main].output = 0
    /\ enc.inputs = <<>>
    /\ ec.present
    /\ ev.pc = "done"
    /\ ~BackendDecrypt(ev.ret.out[1])

\* C17: a successful evaluation returns exactly one ciphertext, the entry of
\* the results table at the output index; when the output gate is an Input
\* gate, that is the ciphertext bound to that input.
C17_SingleOutputFromTable ==
    (ev.pc = "done" /\ ev.ret.tag = "Ok") =>
        LET o == ec.circuit.output IN
        /\ Len(ev.ret.out) = 1
        /\ o < Len(ev.gate_results)
        /\ ev.ret.out[1] = ev.gate_results[o + 1]
        /\ ev.ret.out[1] # NoCt
        /\ GateAt(ec.circuit.gates, o).kind = "Input" =>
               ev.ret.out[1] = ec.encrypted_inputs[InputRank(ec.circuit.gates, o) + 1]

\* An evaluation has returned the second bound input of a circuit whose
\* last gate is not the output.
C17_Witness ==
    /\ ev.pc = "done"
    /\ ev.ret.tag = "Ok"
    /\ ec.circuit.gates = <<GInput, GInput, GNot(0)>>
    /\ ec.circuit.output = 1
    /\ enc.inputs = <<FALSE, TRUE>>
    /\ ev.ret.out = <<ec.encrypted_inputs[2]>>

-----------------------------------------------------------------------------
(* The two paths of encrypt_inputs compared, checked under SpecPaths.       *)

C13_WitnessMismatch ==
    /\ saved.call = "encrypt_inputs"
    /\ saved.ret.tag = "InputCountMismatch"
    /\ enc.pc = "done"
    /\ feature_parallel

-----------------------------------------------------------------------------
(* evaluate and try_evaluate compared, checked under SpecEntries.           *)

\* C14: on the same EncryptedCircuit, if try_evaluate returns Ok(v) then
\* evaluate returns the same v, if try_evaluate returns Err then evaluate
\* panics, and evaluate returns a value only when try_evaluate returns it.
C14_EntriesAgree ==
    (saved.call = "evaluate" /\ ev.pc = "done" /\ saved.entry # ev.entry) =>
        LET t == IF ev.entry = "try_evaluate" THEN ev.ret ELSE saved.ret
            e == IF ev.entry = "evaluate" THEN ev.ret ELSE saved.ret
        IN  /\ t.tag = "Ok" => e = t
            /\ t.tag = "Err" => e.tag = "Panic"
            /\ t.tag = "Panic" => e.tag = "Panic"
            /\ e.tag \in {"Ok", "Panic"}
            /\ e.tag = "Ok" => t = e

\* try_evaluate returned Err for a gate that reads a slot not yet computed,
\* and evaluate, called next, panicked.
C14_Witness ==
    /\ saved.call = "evaluate"
    /\ saved.entry = "try_evaluate"
    /\ saved.ret.tag = "Err"
    /\ ev.pc = "done"
    /\ ev.entry = "evaluate"
    /\ ev.ret.tag = "Panic"

\* evaluate returned a ciphertext and try_evaluate, called next, returned
\* the same one.
C14_WitnessOk ==
    /\ saved.call = "evaluate"
    /\ saved.entry = "evaluate"
    /\ saved.ret.tag = "Ok"
    /\ ev.pc = "done"
    /\ ev.ret = saved.ret
    /\ Len(ec.circuit.gates) = 3

-----------------------------------------------------------------------------
(* The timeout entry point, checked under SpecTimeoutFair.                  *)

\* The caller has returned because the timeout elapsed.
TimedOut == tw.pc = "returned" /\ tw.cause = "timeout"

\* C15: when the timeout elapses before the worker has delivered, the caller
\* returns the timeout error; the worker is not stopped by that step and
\* goes on to the end of its evaluation; its later send is discarded without
\* a panic; and what the caller received never changes afterwards.
C15_TimeoutLeavesWorkerRunning ==
    /\ [](TimedOut => tw.ret = TimeoutErr)
    /\ [][(tw.pc = "waiting" /\ tw'.cause = "timeout")
             => (ev' = ev /\ tw'.worker = "running")]_vars
    /\ [][TimedOut => (tw'.pc = "returned" /\ tw'.ret = tw.ret)]_vars
    /\ [](TimedOut => (/\ tw.worker \in {"running", "discarded", "panicked"}
                       /\ tw.worker = "panicked" => ev.ret.tag = "Panic"
                       /\ tw.worker = "discarded" =>
                             (ev.pc = "done" /\ ev.ret.tag \in {"Ok", "Err"})))
    /\ ((TimedOut /\ tw.worker = "running") ~> (ev.pc = "done"))
    /\ ((TimedOut /\ tw.worker = "running" /\ ev.pc = "done" /\ ev.ret.tag # "Panic")
           ~> (tw.worker = "discarded"))

\* The caller timed out while the worker was at its first gate of three, and
\* the worker has since finished with Ok and had its send discarded.
C15_Witness ==
    /\ TimedOut
    /\ tw.ret = TimeoutErr
    /\ tw.worker = "discarded"
    /\ ev.pc = "done"
    /\ ev.ret.tag = "Ok"
    /\ Len(ec.circuit.gates) = 3

\* C27: when the worker has sent its result before the timeout elapsed, the
\* caller of try_evaluate_with_timeout returns exactly what try_evaluate
\* produced on the worker, the same Ok output or the same Err; what the
\* caller returns is one value that never changes afterwards, so never a
\* result and the timeout error both; and the caller does not stay blocked.
C27_ResultDelivered ==
    /\ []((tw.pc = "returned" /\ tw.worker = "sent")
            => (tw.cause = "result" /\ ev.pc = "done" /\ tw.ret = ev.ret))
    /\ []((tw.pc = "returned" /\ tw.cause = "result")
            => (tw.worker = "sent" /\ tw.ret = ev.ret /\ tw.ret # TimeoutErr))
    /\ [][tw.pc = "returned" => (tw'.pc = "returned" /\ tw'.ret = tw.ret)]_vars
    /\ ((tw.worker = "sent") ~> (tw.pc = "returned" /\ tw.ret = ev.ret))
    /\ ((tw.pc = "waiting") ~> (tw.pc = "returned"))

\* The caller returned the Err try_evaluate produced on the worker for a
\* gate that reads a slot not yet computed.
C27_Witness ==
    /\ tw.pc = "returned"
    /\ tw.cause = "result"
    /\ tw.ret.tag = "Err"
    /\ tw.ret = ev.ret

\* The caller returned the Ok output the worker sent for a three-gate
\* circuit.
C27_WitnessOk ==
    /\ tw.pc = "returned"
    /\ tw.cause = "result"
    /\ tw.ret.tag = "Ok"
    /\ Len(ec.circuit.gates) = 3

\* C28: try_evaluate_with_timeout returns the "timed out" error only when
\* the timeout elapsed without a result: a worker that stopped without
\* sending (its evaluation aborted) is not reported as a timeout.
C28_TimeoutOnlyWhenElapsed ==
    (tw.pc = "returned" /\ tw.ret = TimeoutErr) => tw.cause = "timeout"

-----------------------------------------------------------------------------
(* Properties of validate on arbitrary circuits, checked under SpecAny.     *)

\* Gate i has an operand index that is not below i.
RefViolation(gs, i) ==
    LET g == GateAt(gs, i) IN
    \/ (~IsLeaf(g)) /\ g.left >= i
    \/ IsBinary(g) /\ g.right >= i

\* The operand indices of gate n.
Operands(gs, n) ==
    LET g == GateAt(gs, n) IN
    IF IsLeaf(g) THEN {}
    ELSE IF g.kind = "Not" THEN {g.left}
    ELSE {g.left, g.right}

RECURSIVE ReachableIn(_, _, _)
\* The gates reachable from the set S along at most k operand edges.
ReachableIn(gs, S, k) ==
    IF k = 0 THEN S
    ELSE ReachableIn(gs, S \cup UNION {Operands(gs, n) : n \in S}, k - 1)

\* Some gate reachable from the output lies on a cycle of operand edges.
CycleReachable(c) ==
    \E n \in ReachableIn(c.gates, {c.output}, Len(c.gates)) :
        n \in ReachableIn(c.gates, Operands(c.gates, n), Len(c.gates))

\* C19: for a circuit with all indices in range and no cycle reachable from
\* the output, a validate() that meets a reference violation reports the
\* smallest gate index i with an operand index >= i, together with that
\* operand index, the left operand of a two-operand gate before the right.
C19_FirstViolationReported ==
    (/\ result.op = "validate"
     /\ ~CycleReachable(circuit[Main])
     /\ \E i \in 0..(Len(circuit[Main].gates) - 1) : RefViolation(circuit[Main].gates, i))
    => LET gs == circuit[Main].gates
           i == CHOOSE k \in 0..(Len(gs) - 1) :
                    /\ RefViolation(gs, k)
                    /\ \A j \in 0..(k - 1) : ~RefViolation(gs, j)
           g == GateAt(gs, i)
       IN  result.val = VForward(i, IF g.left >= i THEN g.left ELSE g.right)

\* validate() ran on a circuit whose gate 1 has both operands out of order
\* and whose gate 2 refers to itself; the output, gate 0, reaches neither.
C19_Witness ==
    /\ result.op = "validate"
    /\ circuit[Main].gates = <<GInput, GAnd(2, 1), GNot(2)>>
    /\ circuit[Main].output = 0
    /\ result.val = VForward(1, 2)

\* Gate n lies on a cycle of operand edges.
OnCycle(gs, n) == n \in ReachableIn(gs, Operands(gs, n), Len(gs))

\* C21: for a circuit with all operand and output indices in range,
\* has_cycles() returns true exactly when some gate reachable from the output
\* along operand references lies on a reference cycle (a self-reference is
\* one); so a cycle the output does not depend on is not reported, and a
\* gate reached twice along acyclic paths is not reported as a cycle.
C21_HasCyclesIffReachableCycle ==
    result.op = "has_cycles"
    => /\ result.val \in {"true", "false"}
       /\ (result.val = "true") <=> CycleReachable(circuit[Main])

\* has_cycles() returned false on a circuit whose output, gate 1, uses gate
\* 0 twice and whose gate 2, which the output does not reach, refers to
\* itself.
C21_Witness ==
    /\ result.op = "has_cycles"
    /\ result.val = "false"
    /\ circuit[Main].gates = <<GInput, GAnd(0, 0), GNot(2)>>
    /\ circuit[Main].output = 1

\* has_cycles() returned true on a circuit whose output reaches, through the
\* right operand of gate 0, the two-gate cycle 1 -> 2 -> 1.
C21_WitnessCycle ==
    /\ result.op = "has_cycles"
    /\ result.val = "true"
    /\ circuit[Main].gates = <<GAnd(0, 1), GNot(2), GNot(1)>>
    /\ circuit[Main].output = 0

C22_WitnessOk ==
    /\ result.op = "validate"
    /\ circuit[Main].gates = <<GInput, GNot(0), GAnd(1, 0)>>
    /\ circuit[Main].output = 2
    /\ result.val = VOk

-----------------------------------------------------------------------------
(* Properties of the evaluation pass, checked under SpecEval and SpecRepeat. *)

\* C23: during evaluation the k-th Input gate in gate order gets the k-th
\* bound input ciphertext, each ciphertext being taken exactly once, also
\* when Input gates stand between Constant and operation gates; the input
\* cursor never runs past the bound sequence (the Input arm never indexes
\* out of range) and equals input_count() once the pass is over.
C23_InputCursor ==
    ev.pc # "idle" =>
        LET gs == ec.circuit.gates
            n == ev.gate_index
            IsIn(i) == GateAt(gs, i).kind = "Input"
        IN  /\ ev.input_index = InputRank(gs, n)
            /\ ev.input_index <= Len(ec.encrypted_inputs)
            /\ \A i \in 0..(n - 1) :
                  IsIn(i) => ev.gate_results[i + 1]
                               = ec.encrypted_inputs[InputRank(gs, i) + 1]
            /\ \A j \in 1..ev.input_index :
                  Cardinality({i \in 0..(n - 1) :
                      IsIn(i) /\ ev.gate_results[i + 1] = ec.encrypted_inputs[j]}) = 1
            /\ \A j \in (ev.input_index + 1)..Len(ec.encrypted_inputs) :
                  \A i \in 1..Len(gs) : ev.gate_results[i] # ec.encrypted_inputs[j]
            /\ n = Len(gs) => /\ ev.input_index = CountInputs(ec.circuit)
                              /\ ev.input_index = Len(ec.encrypted_inputs)
            /\ (ev.pc = "done" /\ n < Len(gs)) => ~IsIn(n)

\* An evaluation has returned for Input, Constant(true), Input: the two
\* bound ciphertexts sit at positions 0 and 2 of the table, in order.
C23_Witness ==
    /\ ev.pc = "done"
    /\ ev.ret.tag = "Ok"
    /\ ec.circuit.gates = <<GInput, GConstant(TRUE), GInput>>
    /\ ev.input_index = 2
    /\ ev.gate_results[1] = ec.encrypted_inputs[1]
    /\ ev.gate_results[3] = ec.encrypted_inputs[2]
    /\ ec.encrypted_inputs[1] # ec.encrypted_inputs[2]

\* C24: for a builder-produced circuit, when the pass comes to an
\* And/Or/Xor/Not gate the table entries of all its operands are filled,
\* and the entry at the output index is filled when the pass ends, so the
\* "not yet computed" and "Output gate not computed" errors do not occur;
\* the filled entries are exactly those of the gates already processed, and
\* no entry is written a second time.
C24_OperandsFilled ==
    /\ []((ec.present /\ ownOnly[Main] /\ ev.pc # "idle") =>
            LET gs == ec.circuit.gates
                n == ev.gate_index
            IN  /\ \A i \in 0..(Len(gs) - 1) : (ev.gate_results[i + 1] # NoCt) <=> (i < n)
                /\ n < Len(gs) =>
                      \A o \in Operands(gs, n) : o < n /\ ev.gate_results[o + 1] # NoCt
                /\ n = Len(gs) => /\ ec.circuit.output < Len(gs)
                                  /\ ev.gate_results[ec.circuit.output + 1] # NoCt
                /\ ev.pc = "done" => (ev.ret.tag = "Ok" /\ n = Len(gs)))
    /\ [][ev.pc = "loop" =>
            /\ \A i \in 1..Len(ev.gate_results) :
                  ev.gate_results[i] # NoCt => ev'.gate_results[i] = ev.gate_results[i]
            /\ Cardinality({i \in 1..Len(ev.gate_results) : ev'.gate_results[i] # NoCt})
                  <= Cardinality({i \in 1..Len(ev.gate_results) : ev.gate_results[i] # NoCt}) + 1
         ]_vars

\* The pass is at the And gate of Input, Not(0), And(0, 1), made by Main
\* from its own NodeIds, with both operand entries filled.
C24_Witness ==
    /\ ownOnly[Main]
    /\ ev.pc = "loop"
    /\ ev.gate_index = 2
    /\ ec.circuit.gates = <<GInput, GNot(0), GAnd(0, 1)>>
    /\ ev.gate_results[1] # NoCt
    /\ ev.gate_results[2] # NoCt

\* The homomorphic method the pass calls for a gate of kind k.
CallOfKind(k) ==
    CASE k = "And" -> "and"
      [] k = "Or" -> "or"
      [] k = "Xor" -> "xor"
      [] k = "Not" -> "not"

RECURSIVE OpCalls(_, _)
\* One call per And/Or/Xor/Not gate among the first n gates, in gate order.
OpCalls(gs, n) ==
    IF n = 0 THEN <<>>
    ELSE IF IsLeaf(gs[n]) THEN OpCalls(gs, n - 1)
    ELSE Append(OpCalls(gs, n - 1), [op |-> CallOfKind(gs[n].kind), gate |-> n - 1])

\* C25: an evaluation makes exactly one backend gate call for each And, Or,
\* Xor and Not gate it has processed, in gate order and of the gate's kind,
\* and none for an Input or Constant gate; a pass that runs to its end has
\* made one call per operation gate of the whole circuit, gates the output
\* does not depend on included, which is complexity_estimate().boolean_gates
\* whichever node is the output.
C25_OneBackendCallPerGate ==
    ev.pc # "idle" =>
        LET gs == ec.circuit.gates
            cx == ComplexityEstimate(ec.circuit)
        IN  /\ ev.backend_calls = OpCalls(gs, ev.gate_index)
            /\ (ev.pc = "done" /\ ev.ret.tag = "Ok") =>
                  /\ ev.backend_calls = OpCalls(gs, Len(gs))
                  /\ Len(ev.backend_calls)
                       = Cardinality({i \in 1..Len(gs) : ~IsLeaf(gs[i])})
                  /\ ~cx.panic => Len(ev.backend_calls) = cx.boolean_gates

\* An evaluation has returned gate 1 of Input, Not(0), Xor(0, 0) after
\* calling the backend for both operation gates.
C25_Witness ==
    /\ ev.pc = "done"
    /\ ev.ret.tag = "Ok"
    /\ ec.circuit.gates = <<GInput, GNot(0), GXor(0, 0)>>
    /\ ec.circuit.output = 1
    /\ ev.backend_calls = <<[op |-> "not", gate |-> 1], [op |-> "xor", gate |-> 2]>>

\* C26: an evaluation leaves the EncryptedCircuit as it was: circuit, input
\* ciphertexts and both constants; the table and the input cursor belong to
\* one call, so two calls of evaluate/try_evaluate on the same
\* EncryptedCircuit, one after the other or interleaved, each take the bound
\* ciphertexts from the first on and return the same outcome.
C26_EvaluationLeavesCircuit ==
    /\ [][(ev' # ev \/ ev2' # ev2) => ec' = ec]_vars
    /\ [](\A v \in {ev, ev2} :
            v.pc # "idle" =>
                /\ v.input_index = InputRank(ec.circuit.gates, v.gate_index)
                /\ \A i \in 0..(v.gate_index - 1) :
                      GateAt(ec.circuit.gates, i).kind = "Input"
                      => v.gate_results[i + 1]
                           = ec.encrypted_inputs[InputRank(ec.circuit.gates, i) + 1])
    /\ []((ev.pc = "done" /\ ev2.pc = "done") =>
            /\ ev.entry = ev2.entry => ev.ret = ev2.ret
            /\ (ev.ret.tag = "Ok") <=> (ev2.ret.tag = "Ok")
            /\ ev.ret.out = ev2.ret.out)

\* The second call has returned Ok while the first, started before it, is
\* still at its second gate.
C26_Witness ==
    /\ ev.pc = "loop"
    /\ ev.gate_index = 1
    /\ ev2.pc = "done"
    /\ ev2.ret.tag = "Ok"
    /\ CountInputs(ec.circuit) = 2

\* Both calls have returned the same ciphertext for a circuit with an input.
C26_WitnessBoth ==
    /\ ev.pc = "done"
    /\ ev2.pc = "done"
    /\ ev.ret.tag = "Ok"
    /\ ev.ret = ev2.ret
    /\ CountInputs(ec.circuit) >= 1

-----------------------------------------------------------------------------
(* Properties of encrypt_inputs with a failing backend, under SpecEncFail.  *)

\* The positions of the slice whose encryption the backend rejects.
FailingInputs == backend_fail.inputs \cap (1..Len(enc.inputs))

\* C29: if the encryption of any input plaintext or of either Boolean
\* constant fails, encrypt_inputs returns an error and no EncryptedCircuit;
\* and when an input encryption fails the error returned is the error of
\* the first failing input, on the sequential and on the parallel path.
C29_FirstInputErrorSurfaced ==
    (/\ enc.pc = "done"
     /\ ~CountMismatch(circuit[Main], enc.inputs))
    => /\ (FailingInputs # {} \/ backend_fail.false \/ backend_fail.true)
          => (enc.ret.tag = "EncryptError" /\ ~ec.present)
       /\ FailingInputs # {}
          => enc.ret = RetEncryptErr("input",
                 CHOOSE i \in FailingInputs : \A j \in FailingInputs : i <= j)

-----------------------------------------------------------------------------
(* Properties of the circuit! macro, checked under SpecMacro.               *)

RECURSIVE ExprValue(_, _)
\* The Boolean value of an expression when parameter p has the value a[p].
ExprValue(e, a) ==
    CASE e[1] = "path" -> a[e[2]]
      [] e[1] = "lit" -> e[2]
      [] e[1] = "not" -> ~ExprValue(e[2], a)
      [] e[1] = "paren" -> ExprValue(e[2], a)
      [] e[1] = "and" -> ExprValue(e[2], a) /\ ExprValue(e[3], a)
      [] e[1] = "or" -> ExprValue(e[2], a) \/ ExprValue(e[3], a)
      [] e[1] = "xor" -> ExprValue(e[2], a) # ExprValue(e[3], a)

RECURSIVE Occurrences(_, _)
\* How many nodes of the expression carry the tag.
Occurrences(e, tag) ==
    (IF e[1] = tag THEN 1 ELSE 0)
    + (IF e[1] \in {"not", "paren"} THEN Occurrences(e[2], tag)
       ELSE IF e[1] \in BinOps THEN Occurrences(e[2], tag) + Occurrences(e[3], tag)
       ELSE 0)

\* C20: circuit! { |p1, .., pn| expr }, when it compiles, yields a circuit
\* whose first n gates are its only Input gates, with one And/Or/Xor/Not gate
\* per operator occurrence, one Constant gate per literal, no gate for
\* parentheses, and an output gate whose plaintext value equals the value of
\* expr under every assignment of the parameters.
C20_MacroLowering ==
    (result.op = "circuit!" /\ result.ok) =>
        LET c == circuit[Main]
            n == result.inputs
            e == result.body
        IN  /\ c.present
            /\ KindCount(c, "Input") = n
            /\ \A i \in 1..n : c.gates[i].kind = "Input"
            /\ KindCount(c, "And") = Occurrences(e, "and")
            /\ KindCount(c, "Or") = Occurrences(e, "or")
            /\ KindCount(c, "Xor") = Occurrences(e, "xor")
            /\ KindCount(c, "Not") = Occurrences(e, "not")
            /\ KindCount(c, "Constant") = Occurrences(e, "lit")
            /\ Len(c.gates) = n + Occurrences(e, "and") + Occurrences(e, "or")
                                + Occurrences(e, "xor") + Occurrences(e, "not")
                                + Occurrences(e, "lit")
            /\ c.output < Len(c.gates)
            /\ TopologicalOrder(c.gates)
            /\ \A a \in [1..n -> BOOLEAN] :
                  PlainValue(c.gates, c.output, a) = ExprValue(e, a)

\* |p1, p2| !(p2 | false) has been lowered: p1 is never used, the
\* parentheses add no gate.
C20_Witness ==
    /\ result.op = "circuit!"
    /\ result.ok
    /\ result.inputs = 2
    /\ result.body = <<"not", <<"paren", <<"or", <<"path", 2>>, <<"lit", FALSE>>>>>>>>
    /\ circuit[Main].gates = <<GInput, GInput, GConstant(FALSE), GOr(1, 2), GNot(3)>>
    /\ circuit[Main].output = 4

-----------------------------------------------------------------------------
(* Properties of complexity_rating, checked under SpecRating.               *)

\* C11: complexity_rating() depends only on total_gates: 0..10 is Trivial,
\* 11..100 Simple, 101..1000 Moderate, 1001..10000 Complex, anything above
\* Very Complex, whatever the depth.
C11_RatingBands ==
    result.op = "complexity_rating" =>
        LET n == result.of.total_gates
            r == result.val
        IN  /\ (n \in 0..10) <=> (r = "Trivial")
            /\ (n \in 11..100) <=> (r = "Simple")
            /\ (n \in 101..1000) <=> (r = "Moderate")
            /\ (n \in 1001..10000) <=> (r = "Complex")
            /\ (n > 10000) <=> (r = "Very Complex")

\* The rating was taken at the top of the Moderate band, at depth 1.
C11_Witness ==
    /\ result.op = "complexity_rating"
    /\ result.of.total_gates = 1000
    /\ result.of.depth = 1
    /\ result.val = "Moderate"

====
